---- MODULE Spec2Model ----
(***************************************************************************)
(* A model of the MonitorDO Durable Object of akile_monitor                *)
(* (src/src/monitor-do.ts), its liveness sweep (src/src/telegram.ts) and   *)
(* the name comparator of the utilities (src/unnamed/part_000).            *)
(*                                                                         *)
(* Strings are sequences of UTF-16 code units (natural numbers), so that   *)
(* the comparator can be modelled by what it does to the characters.       *)
(* A JSON text is modelled by the document it encodes: a record.           *)
(* JS null is the empty sequence <<>>, a non-null value v is <<v>>.        *)
(***************************************************************************)
EXTENDS Integers, Sequences, FiniteSets, TLC

(***************************************************************************)
(* Bounds of the model.                                                    *)
(***************************************************************************)
\* number of host identities producers report on
NumHosts == 3
\* number of producer and of consumer connections accepted in one behaviour
NumAgents == 1
NumViewers == 2
\* number of host identities that get a metadata record
NumInfoHosts == 2
\* number of entries of a store whose sorted list is computed on its own
MaxSortLen == 4
\* number of data messages that arrive in one behaviour of the decode's waits
MaxArrivals == 3
\* number of times the runtime runs alarm() again after it has thrown
MaxAlarmRetries == 2
\* number of invalidations and of serializations counted in one instance
MaxCacheOps == 3
\* number of acknowledgements sent on one connection
MaxAcks == 2
\* length of the names the comparator is given
MaxNameLen == 3

(***************************************************************************)
(* Program constants.                                                      *)
(***************************************************************************)
\* monitor-do.ts:33 sets 500; the model scales the limit down so that a
\* store at its limit is reachable with NumHosts identities.
MONITOR_DATA_MAX_ENTRIES == 2
SNAPSHOT_MAX_AGE_SEC == 300
ALARM_INTERVAL_MS == 20000
OFFLINE_THRESHOLD_SEC == 60

\* the times (unix seconds) the clock passes through
ClockValues == {0, 61}

(***************************************************************************)
(* Host identities: "HK1", "HK2", "HK10", "US1", "HK3", and for the sort   *)
(* "HK", "HK0", "HK 1".                                                    *)
(***************************************************************************)
AllNames ==
  << <<72, 75, 49>>, <<72, 75, 50>>, <<72, 75, 49, 48>>, <<85, 83, 49>>,
     <<72, 75, 51>>, <<72, 75>>, <<72, 75, 48>>, <<72, 75, 32, 49>> >>

Names == {AllNames[i] : i \in 1..NumHosts}

\* the sockets the runtime creates: the first NumAgents for /ws/agent
AgentIds == 1..NumAgents
ViewerIds == (NumAgents + 1)..(NumAgents + NumViewers)
ConnIds == AgentIds \cup ViewerIds

(***************************************************************************)
(* compareStrings and naturalCompare (part_000, utils).                    *)
(***************************************************************************)
IsWhitespace(c) == c \in {9, 10, 11, 12, 13, 32, 160}
IsLetter(c) == c \in (65..90) \cup (97..122)
IsDigit(c) == c \in 48..57

\* str.replace(/\s+/g, "")
StripWhitespace(s) == SelectSeq(s, LAMBDA c : ~IsWhitespace(c))

\* length of the longest prefix of s made of letters: the group ([a-zA-Z]+)
RECURSIVE LetterPrefixLen(_)
LetterPrefixLen(s) ==
  IF s = <<>> \/ ~IsLetter(Head(s)) THEN 0 ELSE 1 + LetterPrefixLen(Tail(s))

\* /^([a-zA-Z]+)(\d*)$/ matches s
MatchesNameRe(s) ==
  /\ LetterPrefixLen(s) >= 1
  /\ \A i \in (LetterPrefixLen(s) + 1)..Len(s) : IsDigit(s[i])

\* parseInt(digits, 10) of a run of decimal digits
RECURSIVE ParseInt(_)
ParseInt(d) ==
  IF d = <<>> THEN 0
  ELSE 10 * ParseInt(SubSeq(d, 1, Len(d) - 1)) + (d[Len(d)] - 48)

\* the JS comparison a < b of two strings: by code units, a proper prefix first
RECURSIVE StrLess(_, _)
StrLess(a, b) ==
  IF b = <<>> THEN FALSE
  ELSE IF a = <<>> THEN TRUE
  ELSE IF Head(a) # Head(b) THEN Head(a) < Head(b)
  ELSE StrLess(Tail(a), Tail(b))

\* length of the run at the head of s of characters that are (digit = TRUE)
\* digits or (digit = FALSE) non-digits
RECURSIVE RunLen(_, _)
RunLen(s, digit) ==
  IF s = <<>> \/ IsDigit(Head(s)) # digit THEN 0
  ELSE 1 + RunLen(Tail(s), digit)

\* tokenize of naturalCompare: digit runs become numbers, the other runs
\* strings
RECURSIVE Tokenize(_)
Tokenize(s) ==
  IF s = <<>> THEN <<>>
  ELSE LET digit == IsDigit(Head(s))
           n == RunLen(s, digit)
           run == SubSeq(s, 1, n)
           rest == SubSeq(s, n + 1, Len(s))
       IN  << IF digit THEN [isNum |-> TRUE, num |-> ParseInt(run), str |-> <<>>]
              ELSE [isNum |-> FALSE, num |-> 0, str |-> run] >>
           \o Tokenize(rest)

RECURSIVE CompareTokens(_, _, _)
CompareTokens(ta, tb, i) ==
  LET len == IF Len(ta) < Len(tb) THEN Len(ta) ELSE Len(tb)
  IN  IF i > len THEN Len(ta) - Len(tb)
      ELSE IF ta[i].isNum /\ tb[i].isNum
             THEN IF ta[i].num < tb[i].num THEN -1
                  ELSE IF ta[i].num > tb[i].num THEN 1
                  ELSE CompareTokens(ta, tb, i + 1)
      ELSE IF ta[i].isNum # tb[i].isNum
             THEN IF ta[i].isNum THEN -1 ELSE 1
      ELSE IF StrLess(ta[i].str, tb[i].str) THEN -1
      ELSE IF StrLess(tb[i].str, ta[i].str) THEN 1
      ELSE CompareTokens(ta, tb, i + 1)

naturalCompare(a, b) == CompareTokens(Tokenize(a), Tokenize(b), 1)

\* the loop over the letter parts: the first differing code unit decides
RECURSIVE CompareLetters(_, _, _)
CompareLetters(l1, l2, i) ==
  LET minLen == IF Len(l1) < Len(l2) THEN Len(l1) ELSE Len(l2)
  IN  IF i > minLen THEN 0
      ELSE IF l1[i] < l2[i] THEN -1
      ELSE IF l1[i] > l2[i] THEN 1
      ELSE CompareLetters(l1, l2, i + 1)

\* a fallback that compares the two strings as plain strings
compareStringsFallbackLexical(str1, str2) ==
  LET s1 == StripWhitespace(str1)
      s2 == StripWhitespace(str2)
  IN  IF ~MatchesNameRe(s1) \/ ~MatchesNameRe(s2)
        THEN IF StrLess(s1, s2) THEN -1 ELSE IF StrLess(s2, s1) THEN 1 ELSE 0
      ELSE LET k1 == LetterPrefixLen(s1)
               k2 == LetterPrefixLen(s2)
               byLetters == CompareLetters(SubSeq(s1, 1, k1), SubSeq(s2, 1, k2), 1)
               num1 == ParseInt(SubSeq(s1, k1 + 1, Len(s1)))
               num2 == ParseInt(SubSeq(s2, k2 + 1, Len(s2)))
           IN  IF byLetters # 0 THEN byLetters
               ELSE IF k1 < k2 THEN -1
               ELSE IF k1 > k2 THEN 1
               ELSE IF num1 < num2 THEN -1
               ELSE IF num1 > num2 THEN 1
               ELSE 0

\* a comparison of the two names as plain strings
compareStringsLexical(str1, str2) ==
  IF StrLess(str1, str2) THEN -1
  ELSE IF StrLess(str2, str1) THEN 1
  ELSE 0

compareStrings(str1, str2) ==
  LET s1 == StripWhitespace(str1)
      s2 == StripWhitespace(str2)
  IN  IF ~MatchesNameRe(s1) \/ ~MatchesNameRe(s2) THEN naturalCompare(s1, s2)
      ELSE LET k1 == LetterPrefixLen(s1)
               k2 == LetterPrefixLen(s2)
               letter1 == SubSeq(s1, 1, k1)
               letter2 == SubSeq(s2, 1, k2)
               byLetters == CompareLetters(letter1, letter2, 1)
               num1 == ParseInt(SubSeq(s1, k1 + 1, Len(s1)))
               num2 == ParseInt(SubSeq(s2, k2 + 1, Len(s2)))
           IN  IF byLetters # 0 THEN byLetters
               ELSE IF k1 < k2 THEN -1
               ELSE IF k1 > k2 THEN 1
               ELSE IF num1 < num2 THEN -1
               ELSE IF num1 > num2 THEN 1
               ELSE 0

(***************************************************************************)
(* Array.prototype.sort with a comparator: a stable insertion of each      *)
(* entry, in array order, behind the entries that do not compare greater.  *)
(***************************************************************************)
RECURSIVE InsertEntry(_, _)
InsertEntry(sorted, e) ==
  IF sorted = <<>> THEN <<e>>
  ELSE IF compareStrings(e.name, Head(sorted).name) < 0 THEN <<e>> \o sorted
  ELSE <<Head(sorted)>> \o InsertEntry(Tail(sorted), e)

RECURSIVE SortEntries(_)
SortEntries(entries) ==
  IF entries = <<>> THEN <<>>
  ELSE InsertEntry(SortEntries(SubSeq(entries, 1, Len(entries) - 1)),
                   entries[Len(entries)])

(***************************************************************************)
(* Documents (JSON values) and the messages of a producer.                 *)
(***************************************************************************)
\* a MonitorData document with Host.Name = n and TimeStamp = t
Snapshot(n, t) == [Host |-> [Name |-> n], TimeStamp |-> t]

\* a JSON object without a Host member
NoHostDoc(t) == [TimeStamp |-> t]

\* data.Host?.Name is truthy
HasHostName(d) == "Host" \in DOMAIN d /\ d.Host.Name # <<>>

\* what the configured secret is compared with
AUTH_SECRET == "secret"

\* The wire content of a message. kind "secret" is the configured secret (as
\* text, or as its UTF-8 bytes in a binary frame), "wrong" any other text that
\* is neither JSON nor a gzip stream, "json" the JSON text of doc, "gzip" the
\* gzip stream of that JSON text (in a text frame: one code unit per byte).
Message(frame, kind, doc) == [frame |-> frame, kind |-> kind, doc |-> doc]

Frames == {"text", "binary"}

DocsAt(t) == {Snapshot(n, t) : n \in Names} \cup {NoHostDoc(t)}

\* the messages a peer sends at time t: the secret and another text in both
\* frames, every document as a binary gzip frame, and the first identity's
\* snapshot and the document without Host in every other encoding
MessagesAt(t) ==
  {Message(f, k, NoHostDoc(0)) : f \in Frames, k \in {"secret", "wrong"}}
    \cup {Message("binary", "gzip", d) : d \in DocsAt(t)}
    \cup {Message(f, k, d) : f \in Frames, k \in {"json", "gzip"},
                             d \in {Snapshot(AllNames[1], t), NoHostDoc(t)}}

\* the messages received on connection c at time t: a producer sends any of
\* MessagesAt, a consumer the two that a producer's handling would act on, the
\* secret as text and a gzip snapshot as binary
MessagesFor(c, t) ==
  IF c \in AgentIds THEN MessagesAt(t)
  ELSE {Message("text", "secret", NoHostDoc(0)),
        Message("binary", "gzip", Snapshot(AllNames[1], t))}

\* typeof message === "string" ? message : new TextDecoder().decode(message)
MessageText(m) == IF m.kind \in {"secret", "wrong"} THEN m.kind ELSE "other"

\* decompressGzip followed by JSON.parse of its result: <<doc>>, or <<>> when
\* either throws
decompressGzip(m) == IF m.kind = "gzip" THEN <<m.doc>> ELSE <<>>

\* the three strategies in order; <<>> is null
tryDecompressStringMessage(m) ==
  IF m.kind = "json" THEN <<m.doc>>
  ELSE IF decompressGzip(m) # <<>> THEN decompressGzip(m)
  ELSE <<>>

(***************************************************************************)
(* The state.                                                              *)
(***************************************************************************)
VARIABLES
  monitorData,          \* Map name -> JSON string, as entries in insertion order
  offlineMap,           \* the names mapped to true
  initialized,          \* the constructor's restore has run
  cachedViewerPayload,  \* <<>> or <<payload>>
  sockets,              \* the runtime's sockets: status, tag, attachment
  storage,              \* durable storage under "monitor:": {[name, json]}
  alarm,                \* <<>> or <<due time>>
  alarmRunning,         \* alarm() waits for its notifications
  now,                  \* Date.now() in seconds
  env,                  \* the notification settings of Env
  acks,                 \* per connection: "auth success" frames sent so far
  survivors,            \* the connections authenticated in an earlier instance
  hostInfo,             \* durable storage under "host:": {[name, info]}
  unanswered,           \* history: the names whose last notification was "offline"
  decode,               \* the decoder on its own: its input, its steps, its result
  arrived,              \* history: the data messages in the order of their arrival
  alarmRetries,         \* the runs of alarm() in a row that have thrown
  notifyFailed,         \* the notifications of the running sweep that fail
  cacheOps,             \* history: <<>> or the counts of the cache's operations
  out                   \* what the last handler sent, closed, logged, returned

memVars == <<monitorData, offlineMap, initialized, cachedViewerPayload>>
auxVars == <<decode, arrived, alarmRetries, notifyFailed, cacheOps>>
vars == <<monitorData, offlineMap, initialized, cachedViewerPayload, sockets,
          storage, alarm, alarmRunning, now, env, acks, survivors, hostInfo,
          unanswered, decode, arrived, alarmRetries, notifyFailed, cacheOps,
          out>>

EmptyOut ==
  [sent |-> [c \in ConnIds |-> <<>>], closes |-> {}, log |-> "",
   notify |-> {}, rpc |-> 0, action |-> "", data |-> <<>>, sendErrors |-> {}]

\* no message is with the decoder
NoDecode ==
  [wire |-> <<>>, tried |-> <<>>, fed |-> <<>>, result |-> <<>>, done |-> FALSE]

AckFrame == [prefix |-> "auth success", payload |-> <<>>]
DataFrame(payload) == [prefix |-> "data: ", payload |-> payload]

(***************************************************************************)
(* Map operations on monitorData.                                          *)
(***************************************************************************)
MapKeys(md) == {md[i].name : i \in 1..Len(md)}
MapHas(md, n) == n \in MapKeys(md)
MapGet(md, n) == (CHOOSE i \in 1..Len(md) : md[i].name = n)
MapValue(md, n) == md[MapGet(md, n)].json
\* Map.set keeps the position of a key that is present
MapSet(md, n, v) ==
  IF MapHas(md, n)
    THEN [md EXCEPT ![MapGet(md, n)] = [name |-> n, json |-> v]]
    ELSE Append(md, [name |-> n, json |-> v])
MapDelete(md, n) == SelectSeq(md, LAMBDA e : e.name # n)

\* getAllMonitorData: the parsed values, sorted by name
getAllMonitorData(md) ==
  LET entries == [i \in 1..Len(md) |-> [name |-> md[i].name, data |-> md[i].json]]
      sorted == SortEntries(entries)
  IN  [i \in 1..Len(sorted) |-> sorted[i].data]

\* getViewerPayload: the memoized payload, rebuilt when the cache is null
getViewerPayload(cache, md) ==
  IF cache = <<>> THEN getAllMonitorData(md) ELSE cache[1]

\* a getViewerPayload that serializes on every call
RebuildsAlways(cache) == 1

\* the number of serializations of one call of getViewerPayload: one when the
\* cache is null, none otherwise
Rebuilds(cache) == IF cache = <<>> THEN 1 ELSE 0

\* the history of the cache in a new instance
NewCacheOps == [invalidations |-> 0, rebuilds |-> 0, sinceChange |-> 0]

\* the history after a handler that set the cache to null invalidated times
\* and then serialized rebuilt times
CountCacheOps(ops, invalidated, rebuilt) ==
  IF ops = <<>> THEN <<>>
  ELSE [invalidations |-> ops.invalidations + invalidated,
        rebuilds |-> ops.rebuilds + rebuilt,
        sinceChange |-> IF invalidated > 0 THEN rebuilt
                        ELSE ops.sinceChange + rebuilt]

\* this.state.getWebSockets(tag)
OpenSockets(socks) == {c \in ConnIds : socks[c].status = "open"}
Viewers(socks) == {c \in OpenSockets(socks) : socks[c].tag = "viewer"}

\* the limit tested with > in place of >=
CapacityExceededOffByOne(md, name) ==
  ~MapHas(md, name) /\ Len(md) > MONITOR_DATA_MAX_ENTRIES

\* no limit at all
CapacityExceededNever(md, name) == FALSE

\* the limit applied to every put at the limit, also of a name that is present
CapacityExceededAlsoPresent(md, name) == Len(md) >= MONITOR_DATA_MAX_ENTRIES

\* the test of handleAgentData on the size of the map
CapacityExceeded(md, name) ==
  ~MapHas(md, name) /\ Len(md) >= MONITOR_DATA_MAX_ENTRIES

(***************************************************************************)
(* Init: a fresh object on empty storage, after its constructor.           *)
(***************************************************************************)
EnvNotifying == [ENABLE_TG |-> "true", TG_CHAT_ID |-> "42", TG_TOKEN |-> "token"]

Init ==
  /\ monitorData = <<>>
  /\ offlineMap = {}
  /\ initialized = TRUE
  /\ cachedViewerPayload = <<>>
  /\ sockets = [c \in ConnIds |-> [status |-> "new", tag |-> "none", authed |-> FALSE]]
  /\ storage = {}
  /\ alarm = <<>>
  /\ alarmRunning = FALSE
  /\ now = 0
  /\ env = EnvNotifying
  /\ acks = [c \in ConnIds |-> 0]
  /\ survivors = {}
  /\ hostInfo = {}
  /\ unanswered = {}
  /\ decode = NoDecode
  /\ arrived = <<>>
  /\ alarmRetries = 0
  /\ notifyFailed = {}
  /\ cacheOps = <<>>
  /\ out = EmptyOut

(***************************************************************************)
(* Connections.                                                            *)
(***************************************************************************)
\* the runtime hands out the sockets of one path in the order of their ids
NextConn(c, ids) ==
  /\ c \in ids
  /\ sockets[c].status = "new"
  /\ \A d \in ids : d < c => sockets[d].status # "new"

\* handleAgentWebSocket for the next socket among ids: accept with tag
\* "agent", attachment {authed: false}
AcceptAgent(c, ids) ==
  /\ initialized
  /\ NextConn(c, ids)
  /\ sockets' = [sockets EXCEPT ![c] =
                   [status |-> "open", tag |-> "agent", authed |-> FALSE]]
  /\ out' = EmptyOut
  /\ UNCHANGED <<memVars, storage, alarm, alarmRunning, now, env, acks, survivors, hostInfo, unanswered, auxVars>>

HandleAgentWebSocket(c) == AcceptAgent(c, AgentIds)

\* an upgrade that is handled while the constructor's restore has not run
HandleViewerWebSocketEarly(c) ==
  /\ NextConn(c, ViewerIds)
  /\ sockets' = [sockets EXCEPT ![c] =
                   [status |-> "open", tag |-> "viewer", authed |-> FALSE]]
  /\ out' = EmptyOut
  /\ UNCHANGED <<memVars, storage, alarm, alarmRunning, now, env, acks, survivors, hostInfo, unanswered, auxVars>>

\* handleViewerWebSocket: accept the socket as a consumer (events are
\* delivered only when blockConcurrencyWhile of the constructor has ended)
HandleViewerWebSocket(c) ==
  /\ initialized
  /\ NextConn(c, ViewerIds)
  /\ sockets' = [sockets EXCEPT ![c] =
                   [status |-> "open", tag |-> "viewer", authed |-> FALSE]]
  /\ out' = EmptyOut
  /\ UNCHANGED <<memVars, storage, alarm, alarmRunning, now, env, acks, survivors, hostInfo, unanswered, auxVars>>

\* webSocketClose: the peer closed; the handler does nothing
WebSocketClose(c) ==
  /\ initialized
  /\ sockets[c].status = "open"
  /\ sockets' = [sockets EXCEPT ![c].status = "closed"]
  /\ out' = EmptyOut
  /\ UNCHANGED <<memVars, storage, alarm, alarmRunning, now, env, acks, survivors, hostInfo, unanswered, auxVars>>

\* webSocketError: the runtime reports an error on the socket; the handler
\* logs it and calls ws.close(1011, "internal error")
WebSocketError(c) ==
  /\ initialized
  /\ sockets[c].status = "open"
  /\ sockets' = [sockets EXCEPT ![c].status = "closed"]
  /\ out' = [EmptyOut EXCEPT !.closes = {<<c, 1011>>},
                             !.log = "websocket error"]
  /\ UNCHANGED <<memVars, storage, alarm, alarmRunning, now, env, acks, survivors, hostInfo, unanswered, auxVars>>

(***************************************************************************)
(* webSocketMessage.                                                       *)
(***************************************************************************)
\* a comparison that lets every text pass
AuthFailsNever(m) == FALSE

\* text !== this.env.AUTH_SECRET
AuthFails(m) == MessageText(m) # AUTH_SECRET

\* the attachment ignored: every message is taken as the first one
IsAuthedNever(c) == FALSE

\* the attachment ignored: every message is taken as data
IsAuthedAlways(c) == TRUE

\* the attachment read at the top of the handler
IsAuthed(c) == sockets[c].authed

\* an ensureAlarm that sets the alarm whether or not one is pending
EnsureAlarmAlways(a, t) == <<t + ALARM_INTERVAL_MS \div 1000>>

\* ensureAlarm: set the alarm when none is pending
EnsureAlarm(a, t) == IF a = <<>> THEN <<t + ALARM_INTERVAL_MS \div 1000>> ELSE a

\* the broadcast without the invalidation before it: the memoized payload
BroadcastSentStale(socks, md) ==
  LET payload == getViewerPayload(cachedViewerPayload, md)
  IN  [c \in ConnIds |->
         IF c \in Viewers(socks) THEN <<DataFrame(payload)>> ELSE <<>>]

\* the frames broadcastToViewers sends after a put that made the map md
BroadcastSent(socks, md) ==
  LET payload == getViewerPayload(<<>>, md)
  IN  [c \in ConnIds |->
         IF c \in Viewers(socks) THEN <<DataFrame(payload)>> ELSE <<>>]

\* the first message of an agent: compared with the secret
AgentAuth(c, m) ==
  /\ IF AuthFails(m)
       THEN /\ sockets' = [sockets EXCEPT ![c].status = "closed"]
            /\ out' = [EmptyOut EXCEPT !.closes = {<<c, 1008>>},
                                       !.log = "auth failed"]
            /\ UNCHANGED <<alarm, acks>>
       ELSE /\ sockets' = [sockets EXCEPT ![c].authed = TRUE]
            /\ out' = [EmptyOut EXCEPT !.sent[c] = <<AckFrame>>]
            /\ acks' = [acks EXCEPT ![c] = @ + 1]
            /\ alarm' = EnsureAlarm(alarm, now)
  /\ UNCHANGED <<memVars, storage, alarmRunning, now, env, survivors, hostInfo, unanswered, auxVars>>

\* a drop that also sets the memoized payload to null
DropMessageInvalidating(why) ==
  /\ out' = [EmptyOut EXCEPT !.log = why]
  /\ cachedViewerPayload' = <<>>
  /\ UNCHANGED <<monitorData, offlineMap, initialized, sockets, storage, alarm,
                 alarmRunning, now, env, acks, survivors, hostInfo, unanswered,
                 decode, alarmRetries, notifyFailed, cacheOps>>

\* the message is dropped: nothing but the log changes (the history of the
\* arrivals is left to the caller)
DropMessage(why) ==
  /\ out' = [EmptyOut EXCEPT !.log = why]
  /\ UNCHANGED <<memVars, sockets, storage, alarm, alarmRunning, now, env, acks,
                 survivors, hostInfo, unanswered, decode, alarmRetries, notifyFailed, cacheOps>>

\* a loop that ends at the first send that throws
DeliveredUntilFailure(frames, failing) ==
  [d \in ConnIds |-> IF \E f \in failing : f <= d THEN <<>> ELSE frames[d]]

\* the frames that the sockets took: send throws on the sockets in failing
Delivered(frames, failing) ==
  [d \in ConnIds |-> IF d \in failing THEN <<>> ELSE frames[d]]

\* handleAgentData: decode, check, put, invalidate, broadcast; ws.send throws
\* on the consumer sockets in failing
HandleAgentDataWith(c, m, failing) ==
  LET result == IF m.frame = "text" THEN tryDecompressStringMessage(m)
                ELSE decompressGzip(m)
  IN  IF result = <<>>
        THEN DropMessage(IF m.frame = "text" THEN "text decode failed"
                         ELSE "message error")
      ELSE IF ~HasHostName(result[1]) THEN DropMessage("missing Host.Name")
      ELSE IF CapacityExceeded(monitorData, result[1].Host.Name)
             THEN DropMessage("capacity")
      ELSE /\ UNCHANGED <<offlineMap, initialized, sockets, storage, alarm,
                          alarmRunning, now, env, acks, survivors, hostInfo,
                          unanswered, decode, alarmRetries, notifyFailed>>
           /\ cacheOps' =
                CountCacheOps(cacheOps, 1,
                              IF Viewers(sockets) = {} THEN 0 ELSE Rebuilds(<<>>))
           /\ monitorData' = MapSet(monitorData, result[1].Host.Name, result[1])
           /\ out' = [EmptyOut EXCEPT
                        !.sent = Delivered(BroadcastSent(sockets, monitorData'),
                                           failing),
                        !.sendErrors = failing \cap Viewers(sockets)]
           /\ cachedViewerPayload' =
                IF Viewers(sockets) = {} THEN <<>>
                ELSE <<getViewerPayload(<<>>, monitorData')>>

\* handleAgentData when every send succeeds
HandleAgentData(c, m) ==
  HandleAgentDataWith(c, m, {}) /\ UNCHANGED arrived

\* the reply sent to every viewer instead of the one that asked
ViewerRequestToAll(c) ==
  /\ UNCHANGED <<monitorData, offlineMap, initialized, sockets, storage, alarm,
                 alarmRunning, now, env, acks, survivors, hostInfo, unanswered,
                 decode, arrived, alarmRetries, notifyFailed>>
  /\ cacheOps' = CountCacheOps(cacheOps, 0, Rebuilds(cachedViewerPayload))
  /\ cachedViewerPayload' = <<getViewerPayload(cachedViewerPayload, monitorData)>>
  /\ out' = [EmptyOut EXCEPT
               !.sent = [d \in ConnIds |->
                           IF d \in Viewers(sockets)
                             THEN <<DataFrame(cachedViewerPayload'[1])>>
                             ELSE <<>>]]

\* a message on a viewer connection: reply with the payload
ViewerRequest(c) ==
  /\ UNCHANGED <<monitorData, offlineMap, initialized, sockets, storage, alarm,
                 alarmRunning, now, env, acks, survivors, hostInfo, unanswered,
                 decode, arrived, alarmRetries, notifyFailed>>
  /\ cacheOps' = CountCacheOps(cacheOps, 0, Rebuilds(cachedViewerPayload))
  /\ cachedViewerPayload' = <<getViewerPayload(cachedViewerPayload, monitorData)>>
  /\ out' = [EmptyOut EXCEPT !.sent[c] = <<DataFrame(cachedViewerPayload'[1])>>]

WebSocketMessage(c, m) ==
  /\ initialized
  /\ sockets[c].status = "open"
  /\ IF sockets[c].tag = "agent"
       THEN IF IsAuthed(c) THEN HandleAgentData(c, m) ELSE AgentAuth(c, m)
       ELSE ViewerRequest(c)

(***************************************************************************)
(* The sweep: alarm(), checkOfflineStatus, persistMonitorSnapshot.         *)
(***************************************************************************)
\* the test of alarm() on the settings
SweepEnabled(e) ==
  e.ENABLE_TG = "true" /\ e.TG_CHAT_ID # "" /\ e.TG_CHAT_ID # "0"

\* the early return of checkOfflineStatus does not happen
\* a notifier that does not look at the token
NotifierConfiguredAnyToken(e) ==
  e.TG_CHAT_ID # "" /\ e.TG_CHAT_ID # "0"

NotifierConfigured(e) ==
  e.TG_TOKEN # "" /\ e.TG_CHAT_ID # "" /\ e.TG_CHAT_ID # "0"

\* the threshold tested with <= in place of <
IsStaleInclusive(d, t) == d.TimeStamp <= t - OFFLINE_THRESHOLD_SEC

\* m.TimeStamp < now - thresholdSec
IsStale(d, t) == d.TimeStamp < t - OFFLINE_THRESHOLD_SEC

\* hosts that get flagged, and hosts whose flag is removed, in one pass
NewlyOffline(md, off, t) ==
  {n \in MapKeys(md) : IsStale(MapValue(md, n), t) /\ n \notin off}
BackOnline(md, off, t) ==
  {n \in MapKeys(md) : ~IsStale(MapValue(md, n), t) /\ n \in off}

Notifications(md, off, t) ==
  {<<n, "offline">> : n \in NewlyOffline(md, off, t)}
    \cup {<<n, "online">> : n \in BackOnline(md, off, t)}

\* a persist that writes only the names storage does not hold yet
PersistNewKeysOnly(md, st) ==
  st \cup {[name |-> md[i].name, json |-> md[i].json] :
             i \in {j \in 1..Len(md) : \A e \in st : e.name # md[j].name}}

\* persistMonitorSnapshot: one batched put of every entry of the map
Persist(md, st) ==
  {e \in st : e.name \notin MapKeys(md)}
    \cup {[name |-> md[i].name, json |-> md[i].json] : i \in 1..Len(md)}

\* a step 3 that looks at the map only
RescheduleDataOnly(a, socks, md, t) ==
  IF Len(md) > 0
    THEN <<t + ALARM_INTERVAL_MS \div 1000>>
    ELSE a

\* a step 3 that looks at the sockets only
RescheduleSocketsOnly(a, socks, md, t) ==
  IF OpenSockets(socks) # {}
    THEN <<t + ALARM_INTERVAL_MS \div 1000>>
    ELSE a

\* step 3 of alarm(): reschedule while a socket is open or the map is not empty
Reschedule(a, socks, md, t) ==
  IF OpenSockets(socks) # {} \/ Len(md) > 0
    THEN <<t + ALARM_INTERVAL_MS \div 1000>>
    ELSE a

\* the alarm is due; alarm() runs to its first wait, or to its end when it
\* has no notification to wait for (the history variable is left to the
\* specification); the requests of the notifications in failing are going to
\* fail
AlarmStartWith(failing) ==
  /\ initialized
  /\ ~alarmRunning
  /\ alarm # <<>>
  /\ now >= alarm[1]
  /\ LET notes == IF SweepEnabled(env) /\ NotifierConfigured(env)
                    THEN Notifications(monitorData, offlineMap, now)
                    ELSE {}
     IN  IF notes # {}
           THEN /\ offlineMap' =
                     (offlineMap \cup NewlyOffline(monitorData, offlineMap, now))
                       \ BackOnline(monitorData, offlineMap, now)
                /\ out' = [EmptyOut EXCEPT !.notify = notes]
                /\ alarmRunning' = TRUE
                /\ alarm' = <<>>
                /\ notifyFailed' = failing \cap notes
                /\ UNCHANGED <<storage, alarmRetries>>
           ELSE /\ storage' = Persist(monitorData, storage)
                /\ alarm' = Reschedule(<<>>, sockets, monitorData, now)
                /\ out' = EmptyOut
                /\ alarmRetries' = 0
                /\ UNCHANGED <<offlineMap, alarmRunning, notifyFailed>>
  /\ UNCHANGED <<monitorData, initialized, cachedViewerPayload, sockets, now,
                 env, acks, survivors, hostInfo, decode, arrived, cacheOps>>

\* alarm() when every notification is delivered
AlarmStart == AlarmStartWith({})

\* an end of the sweep that a failed notification aborts: no persist, no
\* reschedule
AlarmFinishAborting ==
  /\ alarmRunning
  /\ IF notifyFailed # {}
       THEN /\ out' = [EmptyOut EXCEPT !.log = "alarm failed"]
            /\ UNCHANGED <<storage, alarm>>
       ELSE /\ storage' = Persist(monitorData, storage)
            /\ alarm' = Reschedule(alarm, sockets, monitorData, now)
            /\ out' = EmptyOut
  /\ alarmRunning' = FALSE
  /\ notifyFailed' = {}
  /\ alarmRetries' = 0
  /\ UNCHANGED <<memVars, sockets, now, env, acks, survivors, hostInfo,
                 unanswered, decode, arrived, cacheOps>>

\* the notifications have settled, the failed ones logged by sendTGMessage:
\* persist and reschedule
AlarmFinish ==
  /\ alarmRunning
  /\ storage' = Persist(monitorData, storage)
  /\ alarm' = Reschedule(alarm, sockets, monitorData, now)
  /\ alarmRunning' = FALSE
  /\ out' = [EmptyOut EXCEPT
               !.log = IF notifyFailed # {} THEN "notification failed" ELSE ""]
  /\ notifyFailed' = {}
  /\ alarmRetries' = 0
  /\ UNCHANGED <<memVars, sockets, now, env, acks, survivors, hostInfo,
                 unanswered, decode, arrived, cacheOps>>

(***************************************************************************)
(* rpcDeleteHost.                                                          *)
(***************************************************************************)
\* the delete without the invalidation of the memoized payload
RpcDeleteHostKeepsCache(name) ==
  /\ initialized
  /\ IF ~MapHas(monitorData, name)
       THEN /\ out' = [EmptyOut EXCEPT !.rpc = 404, !.action = "deleteHost"]
            /\ UNCHANGED <<monitorData, offlineMap, storage>>
       ELSE /\ monitorData' = MapDelete(monitorData, name)
            /\ offlineMap' = offlineMap \ {name}
            /\ storage' = {e \in storage : e.name # name}
            /\ out' = [EmptyOut EXCEPT !.rpc = 200, !.action = "deleteHost"]
  /\ UNCHANGED <<initialized, cachedViewerPayload, sockets, alarm, alarmRunning,
                 now, env, acks, survivors, hostInfo, unanswered, auxVars>>

\* a delete that invalidates the memoized payload also when the name is absent
RpcDeleteHostAlwaysInvalidates(name) ==
  /\ initialized
  /\ IF ~MapHas(monitorData, name)
       THEN /\ out' = [EmptyOut EXCEPT !.rpc = 404, !.action = "deleteHost"]
            /\ cachedViewerPayload' = <<>>
            /\ UNCHANGED <<monitorData, offlineMap, storage>>
       ELSE /\ monitorData' = MapDelete(monitorData, name)
            /\ offlineMap' = offlineMap \ {name}
            /\ cachedViewerPayload' = <<>>
            /\ storage' = {e \in storage : e.name # name}
            /\ out' = [EmptyOut EXCEPT !.rpc = 200, !.action = "deleteHost"]
  /\ UNCHANGED <<initialized, sockets, alarm, alarmRunning, now, env, acks,
                 survivors, hostInfo, unanswered, auxVars>>

\* a delete that removes the metadata record of the name as well
RpcDeleteHostDropsInfo(name) ==
  /\ initialized
  /\ IF ~MapHas(monitorData, name)
       THEN /\ out' = [EmptyOut EXCEPT !.rpc = 404, !.action = "deleteHost"]
            /\ UNCHANGED <<monitorData, offlineMap, cachedViewerPayload, storage>>
            /\ UNCHANGED hostInfo
       ELSE /\ monitorData' = MapDelete(monitorData, name)
            /\ offlineMap' = offlineMap \ {name}
            /\ cachedViewerPayload' = <<>>
            /\ storage' = {e \in storage : e.name # name}
            /\ hostInfo' = {e \in hostInfo : e.name # name}
            /\ out' = [EmptyOut EXCEPT !.rpc = 200, !.action = "deleteHost"]
  /\ UNCHANGED <<initialized, sockets, alarm, alarmRunning, now, env, acks,
                 survivors, unanswered, auxVars>>

\* a delete that leaves the persisted snapshot of the name in storage
RpcDeleteHostKeepsSnapshot(name) ==
  /\ initialized
  /\ IF ~MapHas(monitorData, name)
       THEN /\ out' = [EmptyOut EXCEPT !.rpc = 404, !.action = "deleteHost"]
            /\ UNCHANGED <<monitorData, offlineMap, cachedViewerPayload, storage>>
       ELSE /\ monitorData' = MapDelete(monitorData, name)
            /\ offlineMap' = offlineMap \ {name}
            /\ cachedViewerPayload' = <<>>
            /\ UNCHANGED storage
            /\ out' = [EmptyOut EXCEPT !.rpc = 200, !.action = "deleteHost"]
  /\ UNCHANGED <<initialized, sockets, alarm, alarmRunning, now, env, acks,
                 survivors, hostInfo, unanswered, auxVars>>

\* the delete that leaves the offline flag of the host
RpcDeleteHostKeepsFlag(name) ==
  /\ initialized
  /\ IF ~MapHas(monitorData, name)
       THEN /\ out' = [EmptyOut EXCEPT !.rpc = 404, !.action = "deleteHost"]
            /\ UNCHANGED <<monitorData, cachedViewerPayload, storage>>
       ELSE /\ monitorData' = MapDelete(monitorData, name)
            /\ cachedViewerPayload' = <<>>
            /\ storage' = {e \in storage : e.name # name}
            /\ out' = [EmptyOut EXCEPT !.rpc = 200, !.action = "deleteHost"]
  /\ UNCHANGED <<offlineMap, initialized, sockets, alarm, alarmRunning, now, env,
                 acks, survivors, hostInfo, unanswered, auxVars>>

\* rpcDeleteHost
RpcDeleteHost(name) ==
  /\ initialized
  /\ IF ~MapHas(monitorData, name)
       THEN /\ out' = [EmptyOut EXCEPT !.rpc = 404, !.action = "deleteHost"]
            /\ UNCHANGED <<monitorData, offlineMap, cachedViewerPayload, storage,
                           cacheOps>>
       ELSE /\ monitorData' = MapDelete(monitorData, name)
            /\ offlineMap' = offlineMap \ {name}
            /\ cachedViewerPayload' = <<>>
            /\ cacheOps' = CountCacheOps(cacheOps, 1, 0)
            /\ storage' = {e \in storage : e.name # name}
            /\ out' = [EmptyOut EXCEPT !.rpc = 200, !.action = "deleteHost"]
  /\ UNCHANGED <<initialized, sockets, alarm, alarmRunning, now, env, acks,
                 survivors, hostInfo, unanswered, decode, arrived, alarmRetries, notifyFailed>>

(***************************************************************************)
(* Eviction and the constructor's restoreMonitorSnapshot.                  *)
(***************************************************************************)
\* an eviction that loses the authentication state with the object's fields
EvictLosingAuth ==
  /\ initialized
  /\ ~alarmRunning
  /\ monitorData' = <<>>
  /\ offlineMap' = {}
  /\ cachedViewerPayload' = <<>>
  /\ initialized' = FALSE
  /\ survivors' = {c \in ConnIds : sockets[c].authed}
  /\ sockets' = [c \in ConnIds |-> [sockets[c] EXCEPT !.authed = FALSE]]
  /\ out' = EmptyOut
  /\ UNCHANGED <<storage, alarm, alarmRunning, now, env, acks, hostInfo, unanswered, auxVars>>

\* the object leaves memory between two events: its fields are lost, the
\* sockets with their attachments, the storage and the alarm stay
Evict ==
  /\ initialized
  /\ ~alarmRunning
  /\ monitorData' = <<>>
  /\ offlineMap' = {}
  /\ cachedViewerPayload' = <<>>
  /\ initialized' = FALSE
  /\ survivors' = {c \in ConnIds : sockets[c].authed}
  /\ cacheOps' = IF cacheOps = <<>> THEN <<>> ELSE NewCacheOps
  /\ out' = EmptyOut
  /\ UNCHANGED <<sockets, storage, alarm, alarmRunning, now, env, acks, hostInfo,
                 unanswered, decode, arrived, alarmRetries, notifyFailed>>

\* storage.list: the entries in the order of their keys
RECURSIVE ListByKey(_)
ListByKey(st) ==
  IF st = {} THEN <<>>
  ELSE LET first == CHOOSE e \in st :
                      \A f \in st : f = e \/ StrLess(e.name, f.name)
       IN  <<first>> \o ListByKey(st \ {first})

\* a stored value that is not JSON text
CorruptValue == [raw |-> "corrupt"]

\* JSON.parse(value): <<document>>, or <<>> when it throws
JsonParse(v) == IF "raw" \in DOMAIN v THEN <<>> ELSE <<v>>

\* the age tested with >= in place of >
RestorableInclusive(json, t) ==
  /\ JsonParse(json) # <<>>
  /\ HasHostName(json)
  /\ json.TimeStamp >= t - SNAPSHOT_MAX_AGE_SEC

\* the test of restoreMonitorSnapshot on one stored value: it parses, and
\* m.Host?.Name && m.TimeStamp > now - SNAPSHOT_MAX_AGE_SEC
Restorable(json, t) ==
  /\ JsonParse(json) # <<>>
  /\ HasHostName(json)
  /\ json.TimeStamp > t - SNAPSHOT_MAX_AGE_SEC

RECURSIVE RestoreInto(_, _, _)
RestoreInto(md, entries, t) ==
  IF entries = <<>> THEN md
  ELSE RestoreInto(
         IF Restorable(Head(entries).json, t)
           THEN MapSet(md, Head(entries).json.Host.Name, Head(entries).json)
           ELSE md,
         Tail(entries), t)

\* the constructor: blockConcurrencyWhile(restoreMonitorSnapshot)
Construct ==
  /\ ~initialized
  /\ monitorData' = RestoreInto(<<>>, ListByKey(storage), now)
  /\ storage' = {e \in storage : Restorable(e.json, now)}
  /\ initialized' = TRUE
  /\ out' = EmptyOut
  /\ UNCHANGED <<offlineMap, cachedViewerPayload, sockets, alarm, alarmRunning,
                 now, env, acks, survivors, hostInfo, unanswered, auxVars>>

\* time passes
Tick ==
  /\ \E t \in ClockValues : t > now /\ now' = t
  /\ out' = EmptyOut
  /\ UNCHANGED <<memVars, sockets, storage, alarm, alarmRunning, env, acks, survivors, hostInfo, unanswered, auxVars>>

(***************************************************************************)
(* The specification.                                                      *)
(***************************************************************************)
Next ==
  \/ \E c \in ConnIds : HandleAgentWebSocket(c)
  \/ \E c \in ConnIds : HandleViewerWebSocket(c)
  \/ \E c \in ConnIds : WebSocketClose(c)
  \/ \E c \in ConnIds : \E m \in MessagesFor(c, now) : WebSocketMessage(c, m)
  \/ AlarmStart /\ UNCHANGED unanswered
  \/ AlarmFinish
  \/ \E n \in Names : RpcDeleteHost(n)
  \/ Evict
  \/ Construct
  \/ Tick

Spec == Init /\ [][Next]_vars

(***************************************************************************)
(* rpcUpdateInfo and the worker's handleDeleteHost.                        *)
(***************************************************************************)
InfoNames == {AllNames[i] : i \in 1..NumInfoHosts}

\* the HostInfo built from the request: the name and the other fields
HostInfo(name, seller) == [name |-> name, seller |-> seller]

Sellers == {"seller"}

\* rpcUpdateInfo: storage.put("host:" + name, JSON.stringify(hostInfo))
RpcUpdateInfo(name, seller) ==
  /\ initialized
  /\ hostInfo' = {e \in hostInfo : e.name # name} \cup {HostInfo(name, seller)}
  /\ out' = [EmptyOut EXCEPT !.rpc = 200, !.action = "updateInfo"]
  /\ UNCHANGED <<memVars, sockets, storage, alarm, alarmRunning, now, env, acks,
                 survivors, unanswered, auxVars>>

\* handleDeleteHost of the worker: the status it answers with, given the
\* status of the object's response
handleDeleteHost(doStatus) ==
  IF doStatus = 200 THEN 200
  ELSE IF doStatus = 404 THEN 404
  ELSE 500

(***************************************************************************)
(* The sweep on a finer clock, with the history of the notifications: the  *)
(* producers, the alarm, the metadata and the recreation of the object.    *)
(***************************************************************************)
\* the times the clock passes through: the threshold, one second past it, and
\* the age at which a snapshot is no longer restored
SweepClockValues == {0, 60, 61, 300}

TickSweep ==
  /\ \E t \in SweepClockValues : t > now /\ now' = t
  /\ out' = EmptyOut
  /\ UNCHANGED <<memVars, sockets, storage, alarm, alarmRunning, env, acks,
                 survivors, hostInfo, unanswered, auxVars>>

\* the history of what the step sent: a name is unanswered from its "offline"
\* notification to its next "online" notification
RecordNotifications ==
  unanswered' =
    (unanswered \cup {n \in Names : <<n, "offline">> \in out'.notify})
      \ {n \in Names : <<n, "online">> \in out'.notify}

NextSweep ==
  \/ \E c \in AgentIds : HandleAgentWebSocket(c)
  \/ \E c \in AgentIds : \E m \in MessagesFor(c, now) : WebSocketMessage(c, m)
  \/ AlarmStart /\ RecordNotifications
  \/ AlarmFinish
  \/ \E n \in InfoNames : \E i \in Sellers : RpcUpdateInfo(n, i)
  \/ Evict
  \/ Construct
  \/ TickSweep

SpecSweep == Init /\ [][NextSweep]_vars

(***************************************************************************)
(* The sorted list on its own: rpcFetchData over a store filled in any     *)
(* order of insertion.                                                     *)
(***************************************************************************)
SortNames == {AllNames[i] : i \in 1..Len(AllNames)}

\* the stores of up to MaxSortLen distinct names, in every insertion order
RECURSIVE StoresOfLen(_)
StoresOfLen(k) ==
  IF k = 0 THEN {<<>>}
  ELSE {MapSet(md, n, Snapshot(n, 0)) :
          md \in StoresOfLen(k - 1), n \in SortNames}

InitSort ==
  /\ monitorData \in StoresOfLen(MaxSortLen)
  /\ offlineMap = {}
  /\ initialized = TRUE
  /\ cachedViewerPayload = <<>>
  /\ sockets = [c \in ConnIds |-> [status |-> "new", tag |-> "none", authed |-> FALSE]]
  /\ storage = {}
  /\ alarm = <<>>
  /\ alarmRunning = FALSE
  /\ now = 0
  /\ env = EnvNotifying
  /\ acks = [c \in ConnIds |-> 0]
  /\ survivors = {}
  /\ hostInfo = {}
  /\ unanswered = {}
  /\ decode = NoDecode
  /\ arrived = <<>>
  /\ alarmRetries = 0
  /\ notifyFailed = {}
  /\ cacheOps = <<>>
  /\ out = EmptyOut

\* rpcFetchData: the sorted list as the data of the response
RpcFetchData ==
  /\ initialized
  /\ out' = [EmptyOut EXCEPT !.rpc = 200, !.action = "fetchData",
                             !.data = getAllMonitorData(monitorData)]
  /\ UNCHANGED <<memVars, sockets, storage, alarm, alarmRunning, now, env, acks,
                 survivors, hostInfo, unanswered, auxVars>>

NextSort == RpcFetchData

SpecSort == InitSort /\ [][NextSort]_vars

(***************************************************************************)
(* The restore on its own: a new instance over what an earlier one, or an  *)
(* earlier version, left in storage.                                       *)
(***************************************************************************)
\* the time of the restore, and the TimeStamps of the stored snapshots: 400,
\* 300, 299 and 100 seconds before it
RestoreClockValues == {400}
RestoreTimeStamps == {0, 100, 101, 300}

\* what storage holds under the key of name n: nothing, a value that is not
\* JSON, a snapshot of n or a document without Host
StoredKinds ==
  {<<"none", 0>>, <<"corrupt", 0>>}
    \cup {<<k, t>> : k \in {"snapshot", "nohost"}, t \in RestoreTimeStamps}

StoredValue(n, kind) ==
  IF kind[1] = "corrupt" THEN CorruptValue
  ELSE IF kind[1] = "snapshot" THEN Snapshot(n, kind[2])
  ELSE NoHostDoc(kind[2])

\* the contents of storage: at most MONITOR_DATA_MAX_ENTRIES keys
RestoreStorages ==
  {{[name |-> n, json |-> StoredValue(n, f[n])] :
      n \in {m \in Names : f[m][1] # "none"}} :
     f \in {g \in [Names -> StoredKinds] :
              Cardinality({m \in Names : g[m][1] # "none"})
                <= MONITOR_DATA_MAX_ENTRIES}}

InitRestore ==
  /\ monitorData = <<>>
  /\ offlineMap = {}
  /\ initialized = FALSE
  /\ cachedViewerPayload = <<>>
  /\ sockets = [c \in ConnIds |-> [status |-> "new", tag |-> "none", authed |-> FALSE]]
  /\ storage \in RestoreStorages
  /\ alarm = <<>>
  /\ alarmRunning = FALSE
  /\ now \in RestoreClockValues
  /\ env = EnvNotifying
  /\ acks = [c \in ConnIds |-> 0]
  /\ survivors = {}
  /\ hostInfo = {}
  /\ unanswered = {}
  /\ decode = NoDecode
  /\ arrived = <<>>
  /\ alarmRetries = 0
  /\ notifyFailed = {}
  /\ cacheOps = <<>>
  /\ out = EmptyOut

NextRestore == Construct

SpecRestore == InitRestore /\ [][NextRestore]_vars

(***************************************************************************)
(* The administrative operations: rpcUpdateInfo beside rpcDeleteHost, with *)
(* the producers, the consumers and the sweep.                             *)
(***************************************************************************)
NextAdmin ==
  \/ \E c \in ConnIds : HandleAgentWebSocket(c)
  \/ \E c \in ConnIds : HandleViewerWebSocket(c)
  \/ \E c \in ConnIds : \E m \in MessagesFor(c, now) : WebSocketMessage(c, m)
  \/ AlarmStart /\ UNCHANGED unanswered
  \/ AlarmFinish
  \/ \E n \in Names : RpcDeleteHost(n)
  \/ \E n \in InfoNames : \E i \in Sellers : RpcUpdateInfo(n, i)
  \/ Tick

SpecAdmin == Init /\ [][NextAdmin]_vars

(***************************************************************************)
(* The alarm with several producers: every socket of the runtime is an     *)
(* upgrade on /ws/agent; producers authenticate, report and close, hosts   *)
(* are deleted, the alarm fires.                                           *)
(***************************************************************************)
NextTimer ==
  \/ \E c \in ConnIds : AcceptAgent(c, ConnIds)
  \/ \E c \in ConnIds : WebSocketClose(c)
  \/ \E c \in ConnIds : \E m \in MessagesFor(c, now) : WebSocketMessage(c, m)
  \/ AlarmStart /\ UNCHANGED unanswered
  \/ AlarmFinish
  \/ \E n \in Names : RpcDeleteHost(n)
  \/ Tick

SpecTimer == Init /\ [][NextTimer]_vars

(***************************************************************************)
(* The ends of the connections: the peer closes, or the runtime reports an *)
(* error on the socket.                                                    *)
(***************************************************************************)
NextSockets ==
  \/ \E c \in ConnIds : HandleAgentWebSocket(c)
  \/ \E c \in ConnIds : HandleViewerWebSocket(c)
  \/ \E c \in ConnIds : \E m \in MessagesFor(c, now) : WebSocketMessage(c, m)
  \/ \E c \in ConnIds : WebSocketClose(c)
  \/ \E c \in ConnIds : WebSocketError(c)

SpecSockets == Init /\ [][NextSockets]_vars

(***************************************************************************)
(* The handlers of src/unnamed/part_001: a producer socket is accepted     *)
(* with the tags "agent" and "unauthed", which cannot change afterwards,   *)
(* and the authenticated sockets are kept in the Set authedAgents; the     *)
(* field authed of a socket stands for its membership in that Set.         *)
(***************************************************************************)
\* handleAgentWebSocket: acceptWebSocket(server, ["agent", "unauthed"])
HandleAgentWebSocketTagged(c) == AcceptAgent(c, AgentIds)

\* tags.includes("unauthed"): the tags are those of the accept
IsUnauthed(c) == sockets[c].tag = "agent"

\* step 3 of the producer branch: a string is taken as the JSON text, a binary
\* message is decompressed; parse, check the name, put, broadcast
HandleAgentDataTagged(c, m) ==
  LET result == IF m.frame = "text"
                  THEN IF m.kind = "json" THEN <<m.doc>> ELSE <<>>
                  ELSE decompressGzip(m)
  IN  IF result = <<>> THEN DropMessage("message error") /\ UNCHANGED arrived
      ELSE IF ~HasHostName(result[1])
        THEN DropMessage("missing Host.Name") /\ UNCHANGED arrived
      ELSE /\ monitorData' = MapSet(monitorData, result[1].Host.Name, result[1])
           /\ out' = [EmptyOut EXCEPT !.sent = BroadcastSent(sockets, monitorData')]
           /\ UNCHANGED <<offlineMap, initialized, cachedViewerPayload, sockets,
                          storage, alarm, alarmRunning, now, env, acks,
                          survivors, hostInfo, unanswered, auxVars>>

\* webSocketMessage of part_001
WebSocketMessageTagged(c, m) ==
  /\ initialized
  /\ sockets[c].status = "open"
  /\ IF sockets[c].tag = "agent"
       THEN IF IsUnauthed(c) THEN AgentAuth(c, m)
            ELSE IF ~sockets[c].authed
              THEN /\ sockets' = [sockets EXCEPT ![c].status = "closed"]
                   /\ out' = [EmptyOut EXCEPT !.closes = {<<c, 1008>>},
                                              !.log = "auth required"]
                   /\ UNCHANGED <<memVars, storage, alarm, alarmRunning, now,
                                  env, acks, survivors, hostInfo, unanswered,
                                  auxVars>>
            ELSE HandleAgentDataTagged(c, m)
       ELSE /\ out' = [EmptyOut EXCEPT
                         !.sent[c] = <<DataFrame(getAllMonitorData(monitorData))>>]
            /\ UNCHANGED <<memVars, sockets, storage, alarm, alarmRunning, now,
                           env, acks, survivors, hostInfo, unanswered, auxVars>>

\* webSocketClose of part_001: authedAgents.delete(ws); ws.close(code, reason)
WebSocketCloseTagged(c) ==
  /\ initialized
  /\ sockets[c].status = "open"
  /\ sockets' = [sockets EXCEPT ![c].status = "closed", ![c].authed = FALSE]
  /\ out' = [EmptyOut EXCEPT !.closes = {<<c, 1000>>}]
  /\ UNCHANGED <<memVars, storage, alarm, alarmRunning, now, env, acks,
                 survivors, hostInfo, unanswered, auxVars>>

\* webSocketError of part_001: authedAgents.delete(ws); ws.close(1011, ...)
WebSocketErrorTagged(c) ==
  /\ initialized
  /\ sockets[c].status = "open"
  /\ sockets' = [sockets EXCEPT ![c].status = "closed", ![c].authed = FALSE]
  /\ out' = [EmptyOut EXCEPT !.closes = {<<c, 1011>>},
                             !.log = "websocket error"]
  /\ UNCHANGED <<memVars, storage, alarm, alarmRunning, now, env, acks,
                 survivors, hostInfo, unanswered, auxVars>>

NextTagged ==
  \/ \E c \in ConnIds : HandleAgentWebSocketTagged(c)
  \/ \E c \in ConnIds : HandleViewerWebSocket(c)
  \/ \E c \in ConnIds : \E m \in MessagesFor(c, now) :
       acks[c] < MaxAcks /\ WebSocketMessageTagged(c, m)
  \/ \E c \in ConnIds : WebSocketCloseTagged(c)
  \/ \E c \in ConnIds : WebSocketErrorTagged(c)
  \/ Tick

SpecTagged == Init /\ [][NextTagged]_vars

(***************************************************************************)
(* The worker in front of the object: handleUpdateInfo, handleDeleteHost   *)
(* and handleHook of index.ts check the credential of the request and then *)
(* call the object.                                                        *)
(***************************************************************************)
\* env.HOOK_TOKEN
HOOK_TOKEN == "hook"

\* what request.json() makes of the body: an object, the value null (reading
\* a field of it throws), or a rejection
BodyKinds == {"object", "null", "unparseable"}

\* the auth_secret of the body, "missing" when the body has none
SecretValues == {AUTH_SECRET, "wrong", "missing"}

\* the token of the query, "missing" when searchParams.get returns null
TokenValues == {HOOK_TOKEN, "wrong", "missing"}

\* a comparison that also lets a request without a credential pass
SecretMatchesOrMissing(cred) == cred = AUTH_SECRET \/ cred = "missing"

\* body.auth_secret !== env.AUTH_SECRET does not hold
SecretMatches(cred) == cred = AUTH_SECRET

\* a comparison that also lets a request without a token pass
TokenMatchesOrMissing(token) == token = HOOK_TOKEN \/ token = "missing"

\* token !== env.HOOK_TOKEN does not hold
TokenMatches(token) == token = HOOK_TOKEN

\* the worker answers by itself: the object is not called
WorkerAnswers(status) ==
  /\ out' = [EmptyOut EXCEPT !.rpc = status, !.action = "worker"]
  /\ UNCHANGED <<memVars, sockets, storage, alarm, alarmRunning, now, env, acks,
                 survivors, hostInfo, unanswered, auxVars>>

\* the status of a request whose body the worker does not get a credential
\* from: 400 from the catch of request.json(), 500 from the catch of fetch
BodyStatus(kind) == IF kind = "unparseable" THEN 400 ELSE 500

\* POST /info
WorkerUpdateInfo(kind, cred, name, seller) ==
  IF kind # "object" THEN WorkerAnswers(BodyStatus(kind))
  ELSE IF ~SecretMatches(cred) THEN WorkerAnswers(401)
  ELSE RpcUpdateInfo(name, seller)

\* POST /delete
WorkerDeleteHost(kind, cred, name) ==
  IF kind # "object" THEN WorkerAnswers(BodyStatus(kind))
  ELSE IF ~SecretMatches(cred) THEN WorkerAnswers(401)
  ELSE RpcDeleteHost(name)

\* GET /hook
WorkerHook(token) ==
  IF ~TokenMatches(token) THEN WorkerAnswers(401)
  ELSE RpcFetchData

NextWorker ==
  \/ \E c \in ConnIds : HandleAgentWebSocket(c)
  \/ \E c \in ConnIds : HandleViewerWebSocket(c)
  \/ \E c \in AgentIds : \E m \in MessagesFor(c, now) : WebSocketMessage(c, m)
  \/ AlarmStart /\ UNCHANGED unanswered
  \/ AlarmFinish
  \/ \E k \in BodyKinds : \E s \in SecretValues :
       \E n \in InfoNames : \E i \in Sellers : WorkerUpdateInfo(k, s, n, i)
  \/ \E k \in BodyKinds : \E s \in SecretValues :
       \E n \in Names : WorkerDeleteHost(k, s, n)
  \/ \E t \in TokenValues : WorkerHook(t)
  \/ Tick

SpecWorker == Init /\ [][NextWorker]_vars

(***************************************************************************)
(* The sweep under every setting of the notifications: ENABLE_TG, the chat *)
(* id and the token, each set, empty or "0".                               *)
(***************************************************************************)
\* the bindings of the deployment; a binding that is not set reads as ""
EnvSettings ==
  [ENABLE_TG : {"true", "false"},
   TG_CHAT_ID : {"42", "0", ""},
   TG_TOKEN : {"token", "0", ""}]

InitSettings ==
  /\ monitorData = <<>>
  /\ offlineMap = {}
  /\ initialized = TRUE
  /\ cachedViewerPayload = <<>>
  /\ sockets = [c \in ConnIds |-> [status |-> "new", tag |-> "none", authed |-> FALSE]]
  /\ storage = {}
  /\ alarm = <<>>
  /\ alarmRunning = FALSE
  /\ now = 0
  /\ env \in EnvSettings
  /\ acks = [c \in ConnIds |-> 0]
  /\ survivors = {}
  /\ hostInfo = {}
  /\ unanswered = {}
  /\ decode = NoDecode
  /\ arrived = <<>>
  /\ alarmRetries = 0
  /\ notifyFailed = {}
  /\ cacheOps = <<>>
  /\ out = EmptyOut

NextSettings ==
  \/ \E c \in AgentIds : HandleAgentWebSocket(c)
  \/ \E c \in AgentIds : WebSocketClose(c)
  \/ \E c \in AgentIds : \E m \in MessagesFor(c, now) : WebSocketMessage(c, m)
  \/ AlarmStart /\ UNCHANGED unanswered
  \/ AlarmFinish
  \/ Tick

SpecSettings == InitSettings /\ [][NextSettings]_vars

(***************************************************************************)
(* The comparator on its own: rpcFetchData over a store of two names made  *)
(* of letters, digits, another character and a space.                      *)
(***************************************************************************)
\* the code units of the names: A, 0, 1 and -
CompareChars == {65, 48, 49, 45}

RECURSIVE StringsOfLen(_)
StringsOfLen(k) ==
  IF k = 0 THEN {<<>>}
  ELSE {Append(w, ch) : w \in StringsOfLen(k - 1), ch \in CompareChars}

\* the names a producer can report: not empty
CompareNames == UNION {StringsOfLen(k) : k \in 1..MaxNameLen}

InitCompare ==
  /\ monitorData \in {MapSet(MapSet(<<>>, a, Snapshot(a, 0)), b, Snapshot(b, 0)) :
                         a, b \in CompareNames}
  /\ offlineMap = {}
  /\ initialized = TRUE
  /\ cachedViewerPayload = <<>>
  /\ sockets = [c \in ConnIds |-> [status |-> "new", tag |-> "none", authed |-> FALSE]]
  /\ storage = {}
  /\ alarm = <<>>
  /\ alarmRunning = FALSE
  /\ now = 0
  /\ env = EnvNotifying
  /\ acks = [c \in ConnIds |-> 0]
  /\ survivors = {}
  /\ hostInfo = {}
  /\ unanswered = {}
  /\ decode = NoDecode
  /\ arrived = <<>>
  /\ alarmRetries = 0
  /\ notifyFailed = {}
  /\ cacheOps = <<>>
  /\ out = EmptyOut

NextCompare == RpcFetchData

SpecCompare == InitCompare /\ [][NextCompare]_vars

(***************************************************************************)
(* The memoized payload with the history of its operations: how often the  *)
(* handlers of one instance set it to null and how often they serialize.   *)
(***************************************************************************)
InitCache ==
  /\ monitorData = <<>>
  /\ offlineMap = {}
  /\ initialized = TRUE
  /\ cachedViewerPayload = <<>>
  /\ sockets = [c \in ConnIds |-> [status |-> "new", tag |-> "none", authed |-> FALSE]]
  /\ storage = {}
  /\ alarm = <<>>
  /\ alarmRunning = FALSE
  /\ now = 0
  /\ env = EnvNotifying
  /\ acks = [c \in ConnIds |-> 0]
  /\ survivors = {}
  /\ hostInfo = {}
  /\ unanswered = {}
  /\ decode = NoDecode
  /\ arrived = <<>>
  /\ alarmRetries = 0
  /\ notifyFailed = {}
  /\ cacheOps = NewCacheOps
  /\ out = EmptyOut

\* the counts are below their bound
CacheOpsCounted ==
  cacheOps.invalidations < MaxCacheOps /\ cacheOps.rebuilds < MaxCacheOps

NextCache ==
  \/ \E c \in ConnIds : HandleAgentWebSocket(c)
  \/ \E c \in ConnIds : HandleViewerWebSocket(c)
  \/ \E c \in ConnIds : \E m \in MessagesFor(c, now) :
       CacheOpsCounted /\ WebSocketMessage(c, m)
  \/ \E n \in Names : CacheOpsCounted /\ RpcDeleteHost(n)
  \/ Evict
  \/ Construct

SpecCache == InitCache /\ [][NextCache]_vars

(***************************************************************************)
(* Failures of the outside: ws.send throws on some consumer sockets, the   *)
(* requests of some notifications fail.                                    *)
(***************************************************************************)
\* a data message of an authenticated producer while send throws on the
\* consumer sockets in failing
IngestWith(c, m, failing) ==
  /\ initialized
  /\ sockets[c].status = "open"
  /\ sockets[c].tag = "agent"
  /\ IsAuthed(c)
  /\ failing \subseteq Viewers(sockets)
  /\ HandleAgentDataWith(c, m, failing)
  /\ UNCHANGED arrived

NextFault ==
  \/ \E c \in ConnIds : HandleAgentWebSocket(c)
  \/ \E c \in ConnIds : HandleViewerWebSocket(c)
  \/ \E c \in ConnIds : WebSocketClose(c)
  \/ \E c \in ConnIds : \E m \in MessagesFor(c, now) :
       /\ sockets[c].tag = "agent" => ~IsAuthed(c)
       /\ WebSocketMessage(c, m)
  \/ \E c \in ConnIds : \E m \in MessagesFor(c, now) :
       \E failing \in SUBSET Viewers(sockets) : IngestWith(c, m, failing)
  \/ \E failing \in SUBSET Notifications(monitorData, offlineMap, now) :
       AlarmStartWith(failing) /\ UNCHANGED unanswered
  \/ AlarmFinish
  \/ Tick

SpecFault == Init /\ [][NextFault]_vars

(***************************************************************************)
(* Failures of the durable storage: the put of persistMonitorSnapshot      *)
(* rejects. alarm() has no try/catch, so the rejection leaves alarm()      *)
(* before its step 3; the runtime runs a rejected alarm() again, a bounded *)
(* number of times.                                                        *)
(***************************************************************************)
\* alarm() is at its step 2 and storage.put rejects
AlarmPersistFails ==
  /\ initialized
  /\ Len(monitorData) > 0
  /\ \/ alarmRunning
     \/ /\ alarm # <<>>
        /\ now >= alarm[1]
        /\ (SweepEnabled(env) /\ NotifierConfigured(env))
             => Notifications(monitorData, offlineMap, now) = {}
  /\ LET pending == IF alarmRunning THEN alarm ELSE <<>>
         again == pending = <<>> /\ alarmRetries < MaxAlarmRetries
     IN  /\ alarm' = IF again THEN <<now>> ELSE pending
         /\ alarmRetries' = IF again THEN alarmRetries + 1 ELSE 0
  /\ alarmRunning' = FALSE
  /\ notifyFailed' = {}
  /\ out' = [EmptyOut EXCEPT !.log = "alarm rejected"]
  /\ UNCHANGED <<memVars, sockets, storage, now, env, acks, survivors,
                 hostInfo, unanswered, decode, arrived, cacheOps>>

NextStorageFault ==
  \/ \E c \in ConnIds : HandleAgentWebSocket(c)
  \/ \E c \in ConnIds : WebSocketClose(c)
  \/ \E c \in AgentIds : \E m \in MessagesFor(c, now) : WebSocketMessage(c, m)
  \/ AlarmStart /\ UNCHANGED unanswered
  \/ AlarmFinish
  \/ AlarmPersistFails
  \/ Tick

SpecStorageFault == Init /\ [][NextStorageFault]_vars

(***************************************************************************)
(* The waits of the decode: handleAgentData awaits decompressGzip, which   *)
(* awaits reader.read() of its DecompressionStream. An event that arrives  *)
(* during the wait is handled before the handler goes on. The arrivals are *)
(* recorded in their order.                                                *)
(***************************************************************************)
\* the TimeStamps the producer puts in its snapshots
ArrivalTimeStamps == {0, 1}

\* the data messages of a producer about the first identity
ArrivalMessages ==
  {Message(f, k, Snapshot(AllNames[1], t)) :
     f \in Frames, k \in {"json", "gzip"}, t \in ArrivalTimeStamps}

\* the handler of m reaches await reader.read(): every path but a text that
\* JSON.parse takes
Suspends(m) == m.frame = "binary" \/ m.kind # "json"

\* a data message of an authenticated producer arrives: its handler runs to
\* its end, or to the wait of the decompression
DataArrives(c, m) ==
  /\ initialized
  /\ sockets[c].status = "open"
  /\ sockets[c].tag = "agent"
  /\ IsAuthed(c)
  /\ Len(arrived) < MaxArrivals
  /\ IF Suspends(m)
       THEN /\ arrived' = Append(arrived, [conn |-> c, msg |-> m, done |-> FALSE])
            /\ out' = EmptyOut
            /\ UNCHANGED <<memVars, sockets, storage, alarm, alarmRunning, now,
                           env, acks, survivors, hostInfo, unanswered, decode,
                           alarmRetries, notifyFailed, cacheOps>>
       ELSE /\ HandleAgentDataWith(c, m, {})
            /\ arrived' = Append(arrived, [conn |-> c, msg |-> m, done |-> TRUE])

\* the decompression of the oldest waiting handler has settled: the handler
\* goes on to its end
DataResumes(i) ==
  /\ initialized
  /\ i \in 1..Len(arrived)
  /\ ~arrived[i].done
  /\ \A j \in 1..(i - 1) : arrived[j].done \/ ~Suspends(arrived[j].msg)
  /\ HandleAgentDataWith(arrived[i].conn, arrived[i].msg, {})
  /\ arrived' = [arrived EXCEPT ![i].done = TRUE]

NextSuspend ==
  \/ \E c \in AgentIds : HandleAgentWebSocket(c)
  \/ \E c \in ConnIds : HandleViewerWebSocket(c)
  \/ \E c \in AgentIds :
       /\ ~IsAuthed(c)
       /\ WebSocketMessage(c, Message("text", "secret", NoHostDoc(0)))
  \/ \E c \in AgentIds : \E m \in ArrivalMessages : DataArrives(c, m)
  \/ \E i \in 1..MaxArrivals : DataResumes(i)

SpecSuspend == Init /\ [][NextSuspend]_vars

(***************************************************************************)
(* The decode path on its own, on code units and bytes. A text is a        *)
(* sequence of UTF-16 code units, a binary frame a sequence of bytes.      *)
(* JSON texts are the texts "{", letters and digits, "}" and the decimal   *)
(* numbers; a gzip stream is the magic 1f 8b, the body, and the sum of the *)
(* body modulo 256 in the place of the CRC.                                *)
(***************************************************************************)
\* JSON.parse(text) does not throw
IsJsonText(u) ==
  \/ /\ Len(u) >= 2
     /\ u[1] = 123
     /\ u[Len(u)] = 125
     /\ \A i \in 2..(Len(u) - 1) : IsLetter(u[i]) \/ IsDigit(u[i])
  \/ /\ Len(u) >= 1
     /\ \A i \in 1..Len(u) : IsDigit(u[i])

RECURSIVE SumSeq(_)
SumSeq(b) == IF b = <<>> THEN 0 ELSE Head(b) + SumSeq(Tail(b))

\* the gzip stream of a body, as the producer builds it
GzipBytes(body) == <<31, 139>> \o body \o <<SumSeq(body) % 256>>

\* new TextDecoder().decode(bytes): ASCII bytes as they are, U+FFFD for a byte
\* that does not start a sequence
TextDecode(bytes) ==
  [i \in 1..Len(bytes) |-> IF bytes[i] < 128 THEN bytes[i] ELSE 65533]

\* decompressGzip on bytes: <<text>>, or <<>> when the stream throws
DecompressBytes(bytes) ==
  IF /\ Len(bytes) >= 3
     /\ bytes[1] = 31
     /\ bytes[2] = 139
     /\ bytes[Len(bytes)] = SumSeq(SubSeq(bytes, 3, Len(bytes) - 1)) % 256
    THEN <<TextDecode(SubSeq(bytes, 3, Len(bytes) - 1))>>
    ELSE <<>>

\* the low byte taken with a 7-bit mask
LowBytes7(units) == [i \in 1..Len(units) |-> units[i] % 128]

\* bytes[i] = message.charCodeAt(i) & 0xff
LowBytes(units) == [i \in 1..Len(units) |-> units[i] % 256]

\* new TextEncoder().encode(message), for code units outside the surrogates
RECURSIVE Utf8Encode(_)
Utf8Encode(units) ==
  IF units = <<>> THEN <<>>
  ELSE LET u == Head(units)
       IN  (IF u < 128 THEN <<u>>
            ELSE IF u < 2048 THEN <<192 + (u \div 64), 128 + (u % 64)>>
            ELSE <<224 + (u \div 4096), 128 + ((u \div 64) % 64), 128 + (u % 64)>>)
           \o Utf8Encode(Tail(units))

\* decompress, then JSON.parse of the result: <<text>> or <<>>
DecompressToJson(bytes) ==
  IF DecompressBytes(bytes) # <<>> /\ IsJsonText(DecompressBytes(bytes)[1])
    THEN DecompressBytes(bytes)
    ELSE <<>>

\* the decoder without its first strategy
TryDecompressUnitsNoJson(units) ==
  IF DecompressToJson(LowBytes(units)) # <<>>
    THEN [tried |-> <<2>>, fed |-> LowBytes(units),
          result |-> DecompressToJson(LowBytes(units))]
  ELSE IF DecompressToJson(Utf8Encode(units)) # <<>>
    THEN [tried |-> <<2, 3>>, fed |-> LowBytes(units),
          result |-> DecompressToJson(Utf8Encode(units))]
  ELSE [tried |-> <<2, 3>>, fed |-> LowBytes(units), result |-> <<>>]

\* tryDecompressStringMessage on the code units of the text: the strategies
\* it ran, the bytes strategy 2 gave to the decompressor, and what it returns
TryDecompressUnits(units) ==
  IF IsJsonText(units)
    THEN [tried |-> <<1>>, fed |-> <<>>, result |-> <<units>>]
  ELSE IF DecompressToJson(LowBytes(units)) # <<>>
    THEN [tried |-> <<1, 2>>, fed |-> LowBytes(units),
          result |-> DecompressToJson(LowBytes(units))]
  ELSE IF DecompressToJson(Utf8Encode(units)) # <<>>
    THEN [tried |-> <<1, 2, 3>>, fed |-> LowBytes(units),
          result |-> DecompressToJson(Utf8Encode(units))]
  ELSE [tried |-> <<1, 2, 3>>, fed |-> LowBytes(units), result |-> <<>>]

\* the JSON texts and other bodies a stream carries: {A1}, {}, 7, A, and the
\* byte e9
WireBodies == {<<123, 65, 49, 125>>, <<123, 125>>, <<55>>, <<65>>, <<233>>}

\* the contents of a frame: every single byte, the bodies as they are, their
\* gzip streams, the streams with a wrong last byte, and the streams with
\* 256 added to the second code unit
WireUnits ==
  {<<b>> : b \in 0..255}
    \cup WireBodies
    \cup {GzipBytes(b) : b \in WireBodies}
    \cup {<<31, 139>> \o b \o <<(SumSeq(b) + 1) % 256>> : b \in WireBodies}
    \cup {[GzipBytes(b) EXCEPT ![2] = @ + 256] : b \in WireBodies}

InitDecode ==
  /\ monitorData = <<>>
  /\ offlineMap = {}
  /\ initialized = TRUE
  /\ cachedViewerPayload = <<>>
  /\ sockets = [c \in ConnIds |-> [status |-> "new", tag |-> "none", authed |-> FALSE]]
  /\ storage = {}
  /\ alarm = <<>>
  /\ alarmRunning = FALSE
  /\ now = 0
  /\ env = EnvNotifying
  /\ acks = [c \in ConnIds |-> 0]
  /\ survivors = {}
  /\ hostInfo = {}
  /\ unanswered = {}
  /\ decode \in {[NoDecode EXCEPT !.wire = <<[frame |-> f, units |-> u]>>] :
                    f \in Frames, u \in WireUnits}
  /\ arrived = <<>>
  /\ alarmRetries = 0
  /\ notifyFailed = {}
  /\ cacheOps = <<>>
  /\ out = EmptyOut

\* the decode of handleAgentData for a text frame
DecodeText ==
  /\ ~decode.done
  /\ decode.wire[1].frame = "text"
  /\ LET r == TryDecompressUnits(decode.wire[1].units)
     IN  /\ decode' = [decode EXCEPT !.tried = r.tried, !.fed = r.fed,
                                     !.result = r.result, !.done = TRUE]
         /\ out' = [EmptyOut EXCEPT
                      !.log = IF r.result = <<>> THEN "text decode failed" ELSE ""]
  /\ UNCHANGED <<memVars, sockets, storage, alarm, alarmRunning, now, env, acks,
                 survivors, hostInfo, unanswered, arrived, alarmRetries, notifyFailed, cacheOps>>

\* the decode of handleAgentData for a binary frame: decompressGzip, whose
\* throw the handler catches
DecodeBinary ==
  /\ ~decode.done
  /\ decode.wire[1].frame = "binary"
  /\ LET r == DecompressBytes(decode.wire[1].units)
     IN  /\ decode' = [decode EXCEPT !.fed = decode.wire[1].units,
                                     !.result = r, !.done = TRUE]
         /\ out' = [EmptyOut EXCEPT
                      !.log = IF r = <<>> THEN "message error" ELSE ""]
  /\ UNCHANGED <<memVars, sockets, storage, alarm, alarmRunning, now, env, acks,
                 survivors, hostInfo, unanswered, arrived, alarmRetries, notifyFailed, cacheOps>>

NextDecode ==
  \/ DecodeText
  \/ DecodeBinary

SpecDecode == InitDecode /\ [][NextDecode]_vars

(***************************************************************************)
(* Properties.                                                             *)
(***************************************************************************)
\* a message that the decode path turns into a snapshot with an identity:
\* a gzip stream in either frame, or JSON text in a text frame
IsValidSnapshot(m) ==
  /\ m.kind = "gzip" \/ (m.kind = "json" /\ m.frame = "text")
  /\ HasHostName(m.doc)

\* c is an open producer connection whose attachment says authenticated
IsAuthedAgent(c) ==
  sockets[c].status = "open" /\ sockets[c].tag = "agent" /\ sockets[c].authed

NoFrames == [c \in ConnIds |-> <<>>]

StorageKeys == {e.name : e \in storage}

\* C1: in every reachable state the store holds at most MAX_ENTRIES
\* identities (and no identity twice).
C1_StoreBounded ==
  /\ Len(monitorData) <= MONITOR_DATA_MAX_ENTRIES
  /\ Cardinality(MapKeys(monitorData)) <= MONITOR_DATA_MAX_ENTRIES

\* a full store that a sweep has persisted and a recreation has restored, at
\* which a new identity has just been refused
C1_Witness ==
  /\ Len(monitorData) = MONITOR_DATA_MAX_ENTRIES
  /\ Cardinality(storage) = MONITOR_DATA_MAX_ENTRIES
  /\ survivors # {}
  /\ out.log = "capacity"

\* C2: a valid snapshot of an authenticated producer for an identity that is
\* not in a store of MAX_ENTRIES identities is dropped: the store and the cache
\* stay as they are and no frame is sent.
C2_FullStoreDrops ==
  [][Len(monitorData) = MONITOR_DATA_MAX_ENTRIES
       => \A c \in {a \in AgentIds : IsAuthedAgent(a)} :
            \A m \in MessagesAt(now) :
              ( /\ IsValidSnapshot(m)
                /\ ~MapHas(monitorData, m.doc.Host.Name)
                /\ WebSocketMessage(c, m) )
              => /\ monitorData' = monitorData
                 /\ cachedViewerPayload' = cachedViewerPayload
                 /\ out'.sent = NoFrames]_vars

\* the refusal happened with a memoized payload and an open consumer
C2_Witness ==
  /\ out.log = "capacity"
  /\ Len(monitorData) = MONITOR_DATA_MAX_ENTRIES
  /\ cachedViewerPayload # <<>>
  /\ Viewers(sockets) # {}
  /\ out.sent = NoFrames

\* C3: an unauthenticated producer connection whose message is not the secret
\* is closed with code 1008 and gets no acknowledgement; it is not
\* authenticated then or later, and the store is not changed.
C3_AuthFailureCloses ==
  [][ /\ \A c \in {a \in ConnIds : sockets[a].tag = "agent" /\ ~sockets[a].authed} :
           \A m \in {x \in MessagesAt(now) : MessageText(x) # AUTH_SECRET} :
             WebSocketMessage(c, m)
             => /\ sockets'[c].status = "closed"
                /\ out'.closes = {<<c, 1008>>}
                /\ out'.sent = NoFrames
                /\ acks' = acks
                /\ ~sockets'[c].authed
                /\ monitorData' = monitorData
      /\ \A c \in ConnIds :
           (sockets[c].status = "closed" /\ ~sockets[c].authed)
           => /\ sockets'[c] = sockets[c]
              /\ acks'[c] = 0
              /\ out'.sent[c] = <<>> ]_vars

\* a producer connection was just refused
C3_Witness ==
  \E c \in AgentIds :
    /\ sockets[c].status = "closed"
    /\ ~sockets[c].authed
    /\ out.closes = {<<c, 1008>>}
    /\ acks[c] = 0

\* C4: "auth success" is sent at most once per connection, exactly in the step
\* that authenticates it; the secret sent again on an authenticated connection
\* is not acknowledged.
C4_OneAcknowledgement ==
  /\ [](\A c \in ConnIds :
          acks[c] = (IF sockets[c].authed THEN 1 ELSE 0))
  /\ [][ /\ \A c \in ConnIds :
              (AckFrame \in {out'.sent[c][i] : i \in 1..Len(out'.sent[c])})
              <=> (~sockets[c].authed /\ sockets'[c].authed)
         /\ \A c \in {a \in AgentIds : IsAuthedAgent(a)} :
              \A m \in {x \in MessagesAt(now) : MessageText(x) = AUTH_SECRET} :
                WebSocketMessage(c, m)
                => (out'.sent = NoFrames /\ acks' = acks) ]_vars

\* an authenticated connection sent a text that was dropped, and still has one
\* acknowledgement
C4_Witness ==
  \E c \in AgentIds :
    /\ IsAuthedAgent(c)
    /\ acks[c] = 1
    /\ out.log = "text decode failed"
    /\ out.sent = NoFrames

\* C5: a connection message changes the store only when it arrives on a
\* producer connection whose attachment is already authenticated.
C5_OnlyAuthedAgentsPut ==
  [][monitorData' # monitorData
       => \A c \in ConnIds : \A m \in MessagesFor(c, now) :
            WebSocketMessage(c, m) => IsAuthedAgent(c)]_vars

\* a valid snapshot as the first message: the connection is closed and the
\* store is empty
C5_Witness ==
  \E c \in AgentIds :
    /\ sockets[c].status = "closed"
    /\ ~sockets[c].authed
    /\ out.log = "auth failed"
    /\ monitorData = <<>>

\* a put of m's snapshot is not refused by the limit
FitsStore(m) ==
  \/ MapHas(monitorData, m.doc.Host.Name)
  \/ Len(monitorData) < MONITOR_DATA_MAX_ENTRIES

\* payload lists the snapshots of the map md, one per identity
IsPayloadOf(payload, md) ==
  /\ Len(payload) = Len(md)
  /\ {payload[i] : i \in 1..Len(payload)} = {md[i].json : i \in 1..Len(md)}
  /\ \A i, j \in 1..Len(payload) :
       payload[i].Host.Name = payload[j].Host.Name => i = j

\* the frames sent to connection c are one "data: " frame with the snapshots
\* of the map md
GotPayloadOf(frames, md) ==
  /\ Len(frames) = 1
  /\ frames[1].prefix = "data: "
  /\ IsPayloadOf(frames[1].payload, md)

\* C6: a producer connection that authenticated before the object was evicted
\* and recreated is still handled as authenticated: eviction and construction
\* leave the attachments alone, and its next message is decoded and put, with
\* no comparison with the secret, no acknowledgement and no close.
C6_AuthSurvivesRecreation ==
  [][ /\ initialized' # initialized => sockets' = sockets
      /\ \A c \in {a \in survivors : sockets[a].status = "open"} :
           \A m \in MessagesAt(now) :
             WebSocketMessage(c, m)
             => /\ sockets'[c] = sockets[c]
                /\ out'.closes = {}
                /\ acks' = acks
                /\ (IsValidSnapshot(m) /\ FitsStore(m))
                   => /\ MapHas(monitorData', m.doc.Host.Name)
                      /\ MapValue(monitorData', m.doc.Host.Name) = m.doc ]_vars

\* the only producer connection authenticated in an earlier instance, and the
\* store of this instance holds a snapshot that no restore can have loaded
C6_Witness ==
  \E c \in survivors :
    /\ IsAuthedAgent(c)
    /\ \A a \in AgentIds \ {c} : sockets[a].status = "new"
    /\ initialized
    /\ MapKeys(monitorData) \ StorageKeys # {}

\* C7: an accepted ingest for identity h makes the new payload h's entry, also
\* in a full store that holds h, and leaves the other entries and the offline
\* flags as they are; no identity has two entries.
C7_IngestReplaces ==
  /\ [](Cardinality(MapKeys(monitorData)) = Len(monitorData))
  /\ [][\A c \in {a \in AgentIds : IsAuthedAgent(a)} :
          \A m \in {x \in MessagesAt(now) : IsValidSnapshot(x)} :
            (FitsStore(m) /\ WebSocketMessage(c, m))
            => /\ MapKeys(monitorData') = MapKeys(monitorData) \cup {m.doc.Host.Name}
               /\ MapValue(monitorData', m.doc.Host.Name) = m.doc
               /\ \A n \in MapKeys(monitorData) \ {m.doc.Host.Name} :
                    MapValue(monitorData', n) = MapValue(monitorData, n)
               /\ offlineMap' = offlineMap ]_vars

\* a full store whose first entry was just replaced by a later snapshot, with
\* flags set and the broadcast sent to two consumers
C7_Witness ==
  /\ Len(monitorData) = MONITOR_DATA_MAX_ENTRIES
  /\ monitorData[1].json.TimeStamp > monitorData[2].json.TimeStamp
  /\ offlineMap # {}
  /\ Cardinality({v \in ViewerIds : out.sent[v] # <<>>}) >= 2

\* C8: an accepted ingest sends, in the same step, exactly one "data: " frame
\* to every consumer connection open at that moment and nothing to any other
\* connection; its payload lists the store as it is after the put, the new
\* snapshot included, one snapshot per identity.
C8_IngestFansOut ==
  [][\A c \in {a \in AgentIds : IsAuthedAgent(a)} :
       \A m \in {x \in MessagesAt(now) : IsValidSnapshot(x)} :
         (FitsStore(m) /\ WebSocketMessage(c, m))
         => \A v \in ConnIds :
              IF v \in Viewers(sockets)
                THEN /\ GotPayloadOf(out'.sent[v], monitorData')
                     /\ \E i \in 1..Len(out'.sent[v][1].payload) :
                          out'.sent[v][1].payload[i] = m.doc
                ELSE out'.sent[v] = <<>> ]_vars

\* two consumers were sent the same frame with two snapshots, the producer
\* connection none
C8_Witness ==
  \E v, w \in ViewerIds :
    /\ v # w
    /\ out.sent[v] # <<>>
    /\ out.sent[v] = out.sent[w]
    /\ Len(out.sent[v][1].payload) = 2
    /\ out.sent[1] = <<>>

\* C9 as claimed: an ingest and also a successful deleteHost send the new
\* payload to all open consumer connections.
C9_PushOnEveryChange ==
  [][ /\ \A c \in {a \in AgentIds : IsAuthedAgent(a)} :
           \A m \in {x \in MessagesAt(now) : IsValidSnapshot(x)} :
             (FitsStore(m) /\ WebSocketMessage(c, m))
             => \A v \in Viewers(sockets) :
                  GotPayloadOf(out'.sent[v], monitorData')
      /\ \A n \in MapKeys(monitorData) :
           RpcDeleteHost(n)
           => \A v \in Viewers(sockets) :
                GotPayloadOf(out'.sent[v], monitorData') ]_vars

\* C9 amended: an accepted ingest sends the new payload to all open consumer
\* connections; a successful deleteHost sends nothing, it only invalidates
\* the memoized payload.
C9_PushOnIngestOnly ==
  [][ /\ \A c \in {a \in AgentIds : IsAuthedAgent(a)} :
           \A m \in {x \in MessagesAt(now) : IsValidSnapshot(x)} :
             (FitsStore(m) /\ WebSocketMessage(c, m))
             => \A v \in Viewers(sockets) :
                  GotPayloadOf(out'.sent[v], monitorData')
      /\ \A n \in MapKeys(monitorData) :
           RpcDeleteHost(n)
           => /\ out'.sent = NoFrames
              /\ out'.rpc = 200
              /\ cachedViewerPayload' = <<>> ]_vars

\* a host was deleted while a consumer was connected and another host stayed
C9_Witness ==
  /\ out.rpc = 200
  /\ Viewers(sockets) # {}
  /\ out.sent = NoFrames
  /\ monitorData # <<>>

\* C10: a message on a consumer connection, whatever it is, sends exactly one
\* "data: " frame with the current payload to that connection and nothing to
\* any other, and leaves the store, the offline flags, the durable storage and
\* the alarm as they are.
C10_ViewerRequestReplies ==
  [][\A c \in Viewers(sockets) : \A m \in MessagesFor(c, now) :
       WebSocketMessage(c, m)
       => /\ GotPayloadOf(out'.sent[c], monitorData)
          /\ \A d \in ConnIds \ {c} : out'.sent[d] = <<>>
          /\ monitorData' = monitorData
          /\ offlineMap' = offlineMap
          /\ storage' = storage
          /\ alarm' = alarm ]_vars

\* one of two open consumers was answered, with hosts stored, flagged and
\* persisted and an alarm pending
C10_Witness ==
  \E v, w \in Viewers(sockets) :
    /\ v # w
    /\ out.sent[v] # <<>>
    /\ out.sent[w] = <<>>
    /\ monitorData # <<>>
    /\ offlineMap # {}
    /\ storage # {}
    /\ alarm # <<>>

\* C11: whenever a payload is memoized, it is the serialization of the store
\* as it is now: the sorted list of its snapshots.
C11_CacheCoherent ==
  cachedViewerPayload # <<>>
    => cachedViewerPayload[1] = getAllMonitorData(monitorData)

\* a memoized payload of two snapshots whose order is not the order in which
\* they were put
C11_Witness ==
  /\ cachedViewerPayload # <<>>
  /\ Len(monitorData) = 2
  /\ Len(cachedViewerPayload[1]) = 2
  /\ cachedViewerPayload[1][1] = monitorData[2].json

\* C12: in one sweep, every stored host whose TimeStamp is strictly below
\* now - 60 and that is not flagged gets flagged and one offline notification;
\* every host that is not below it and is flagged loses the flag and gets one
\* online notification; every other host keeps its flag and gets no
\* notification. A TimeStamp of exactly now - 60 is not stale.
C12_SweepCases ==
  [][AlarmStart =>
       \A h \in MapKeys(monitorData) :
         LET stale == MapValue(monitorData, h).TimeStamp
                        < now - OFFLINE_THRESHOLD_SEC
             flagged == h \in offlineMap
         IN  /\ (stale /\ ~flagged)
                  => /\ h \in offlineMap'
                     /\ <<h, "offline">> \in out'.notify
                     /\ <<h, "online">> \notin out'.notify
             /\ (~stale /\ flagged)
                  => /\ h \notin offlineMap'
                     /\ <<h, "online">> \in out'.notify
                     /\ <<h, "offline">> \notin out'.notify
             /\ (stale <=> flagged)
                  => /\ h \in offlineMap' <=> flagged
                     /\ <<h, "offline">> \notin out'.notify
                     /\ <<h, "online">> \notin out'.notify]_vars

\* a sweep has just run over a host observed exactly 60 seconds before it and
\* left it unflagged
C12_Witness ==
  /\ ~alarmRunning
  /\ alarm = <<now + ALARM_INTERVAL_MS \div 1000>>
  /\ \E h \in MapKeys(monitorData) :
       /\ MapValue(monitorData, h).TimeStamp = now - OFFLINE_THRESHOLD_SEC
       /\ h \notin offlineMap
       /\ [name |-> h, json |-> MapValue(monitorData, h)] \in storage
  /\ out.notify = {}

\* C13: over whole behaviours, recreations of the object included, an offline
\* notification for a name is sent only when its last notification was not an
\* offline one, and an online notification only when its last notification
\* was an offline one.
C13_Debounce ==
  [][\A h \in Names :
       /\ <<h, "offline">> \in out'.notify => h \notin unanswered
       /\ <<h, "online">> \in out'.notify => h \in unanswered]_vars

\* C14: deleteHost of a name that is not in the store answers 404, which the
\* worker passes on as 404, and changes nothing: the store, the offline
\* flags, the memoized payload, the persisted snapshots and the metadata
\* records are as before.
C14_DeleteAbsentChangesNothing ==
  [][\A n \in Names :
       (RpcDeleteHost(n) /\ ~MapHas(monitorData, n))
         => /\ out'.rpc = 404
            /\ handleDeleteHost(out'.rpc) = 404
            /\ monitorData' = monitorData
            /\ offlineMap' = offlineMap
            /\ cachedViewerPayload' = cachedViewerPayload
            /\ storage' = storage
            /\ hostInfo' = hostInfo]_vars

\* a delete was answered 404 while a payload was memoized, a host flagged,
\* a snapshot persisted and a metadata record stored
C14_Witness ==
  /\ out.action = "deleteHost"
  /\ out.rpc = 404
  /\ cachedViewerPayload # <<>>
  /\ offlineMap # {}
  /\ storage # {}
  /\ hostInfo # {}

\* C15: a successful deleteHost(h) removes h from the store, from the offline
\* flags and from the persisted snapshots and sets the memoized payload to
\* null; the entry, flag and persisted snapshot of every other name and
\* every metadata record, the one of h included, stay as they were.
C15_DeleteFrame ==
  [][\A n \in Names :
       (RpcDeleteHost(n) /\ MapHas(monitorData, n))
         => /\ out'.rpc = 200
            /\ ~MapHas(monitorData', n)
            /\ n \notin offlineMap'
            /\ \A e \in storage' : e.name # n
            /\ cachedViewerPayload' = <<>>
            /\ \A h \in Names \ {n} :
                 /\ MapHas(monitorData', h) <=> MapHas(monitorData, h)
                 /\ MapHas(monitorData, h)
                      => MapValue(monitorData', h) = MapValue(monitorData, h)
                 /\ h \in offlineMap' <=> h \in offlineMap
            /\ {e \in storage' : e.name # n} = {e \in storage : e.name # n}
            /\ hostInfo' = hostInfo]_vars

\* a delete has succeeded for a flagged, persisted host that has a metadata
\* record, with another host in the store: the record is still there
C15_Witness ==
  /\ out.action = "deleteHost"
  /\ out.rpc = 200
  /\ \E e \in hostInfo : ~MapHas(monitorData, e.name)
  /\ Len(monitorData) > 0
  /\ storage # {}
  /\ offlineMap # {}

\* h is neither in the store nor among the persisted snapshots
Absent(h) == ~MapHas(monitorData, h) /\ \A e \in storage : e.name # h

\* C16: a successful deleteHost(h) leaves h out of the store and out of the
\* persisted snapshots; from then on no step brings h back into either of
\* them, be it a persist of a sweep that was running during the delete or a
\* restore in a new instance, unless the step is an accepted ingest of a
\* snapshot of h; and while h is out of the store it is not in the sorted list.
C16_DeletedStaysAbsent ==
  [][\A h \in Names :
       /\ (MapHas(monitorData, h) /\ RpcDeleteHost(h)) => Absent(h)'
       /\ (Absent(h) /\ ~Absent(h)')
            => \E c \in AgentIds : \E m \in MessagesFor(c, now) :
                 /\ IsAuthedAgent(c)
                 /\ IsValidSnapshot(m)
                 /\ m.doc.Host.Name = h
                 /\ WebSocketMessage(c, m)
       /\ Absent(h)'
            => \A i \in 1..Len(getAllMonitorData(monitorData')) :
                 getAllMonitorData(monitorData')[i].Host.Name # h]_vars

\* a delete has succeeded while a sweep waits for its notifications, with
\* its persist still to come and another host left in the store
C16_Witness ==
  /\ out.action = "deleteHost"
  /\ out.rpc = 200
  /\ alarmRunning
  /\ Len(monitorData) > 0

\* C17: the restore loads a stored entry if and only if it parses, has a
\* Host.Name and has TimeStamp > now - 300; every other entry (corrupt, without
\* Host.Name, or with TimeStamp <= now - 300, now - 300 itself included) is
\* deleted from storage and not loaded, whatever else is stored beside it;
\* afterwards the stored names are exactly the names of the store.
C17_RestoreFilter ==
  [][Construct =>
       /\ \A e \in storage :
            LET loads == /\ "raw" \notin DOMAIN e.json
                         /\ "Host" \in DOMAIN e.json
                         /\ e.json.Host.Name # <<>>
                         /\ e.json.TimeStamp > now - SNAPSHOT_MAX_AGE_SEC
            IN  /\ loads => /\ MapHas(monitorData', e.name)
                            /\ MapValue(monitorData', e.name) = e.json
                            /\ e \in storage'
                /\ ~loads => /\ ~MapHas(monitorData', e.name)
                             /\ e \notin storage'
       /\ storage' \subseteq storage
       /\ MapKeys(monitorData') = {e.name : e \in storage'}]_vars

\* a restore has loaded a snapshot observed 299 seconds before it and nothing
\* else
C17_Witness ==
  /\ initialized
  /\ Len(monitorData) = 1
  /\ monitorData[1].json.TimeStamp = now - SNAPSHOT_MAX_AGE_SEC + 1
  /\ storage = {[name |-> monitorData[1].name, json |-> monitorData[1].json]}

\* C18: after a persist, storage maps every name of the store to the store's
\* current value of it; the persist leaves the metadata records alone,
\* removes no stored name, and leaves storage as it is when the store is empty.
C18_PersistWritesStore ==
  [][(AlarmFinish \/ (AlarmStart /\ ~alarmRunning'))
       => /\ \A i \in 1..Len(monitorData) :
               \A e \in storage' :
                 e.name = monitorData[i].name => e.json = monitorData[i].json
          /\ MapKeys(monitorData) \subseteq {e.name : e \in storage'}
          /\ {e.name : e \in storage} \subseteq {e.name : e \in storage'}
          /\ hostInfo' = hostInfo
          /\ Len(monitorData) = 0 => storage' = storage]_vars

\* a sweep has persisted a snapshot newer than the one the sweep before it
\* had persisted, beside a metadata record
C18_Witness ==
  /\ ~alarmRunning
  /\ alarm = <<now + ALARM_INTERVAL_MS \div 1000>>
  /\ hostInfo # {}
  /\ \E e \in storage :
       /\ MapHas(monitorData, e.name)
       /\ MapValue(monitorData, e.name) = e.json
       /\ e.json.TimeStamp = now
       /\ now > OFFLINE_THRESHOLD_SEC + 1

\* the letters at the head of a name without its whitespace, and the number
\* its digits after them denote (0 when there are none)
NamePrefix(n) ==
  SubSeq(StripWhitespace(n), 1, LetterPrefixLen(StripWhitespace(n)))
NameSuffix(n) ==
  ParseInt(SubSeq(StripWhitespace(n), LetterPrefixLen(StripWhitespace(n)) + 1,
                  Len(StripWhitespace(n))))

\* a does not come after b: by the letters first, then by the number
NameOrdered(a, b) ==
  \/ StrLess(NamePrefix(a), NamePrefix(b))
  \/ NamePrefix(a) = NamePrefix(b) /\ NameSuffix(a) <= NameSuffix(b)

\* C19: the list rpcFetchData returns holds every stored snapshot exactly
\* once, ordered by the letters of the names first and by their numeric
\* suffix as an integer where the letters are equal; the names HK10, HK2, HK1,
\* US1 are returned as HK1, HK2, HK10, US1.
C19_FetchSorted ==
  out.action = "fetchData"
    => /\ Len(out.data) = Len(monitorData)
       /\ \A i \in 1..Len(monitorData) :
            Cardinality({j \in 1..Len(out.data) :
                           out.data[j] = monitorData[i].json}) = 1
       /\ \A i, j \in 1..Len(out.data) :
            i < j => NameOrdered(out.data[i].Host.Name, out.data[j].Host.Name)
       /\ MapKeys(monitorData)
            = {AllNames[1], AllNames[2], AllNames[3], AllNames[4]}
            => [i \in 1..Len(out.data) |-> out.data[i].Host.Name]
                 = <<AllNames[1], AllNames[2], AllNames[3], AllNames[4]>>

\* the list was fetched from a store filled in the order HK10, HK2, HK1, US1
C19_Witness ==
  /\ out.action = "fetchData"
  /\ [i \in 1..Len(monitorData) |-> monitorData[i].name]
       = <<AllNames[3], AllNames[2], AllNames[1], AllNames[4]>>
  /\ Len(out.data) = Len(monitorData)

\* the stores that hold the entries of md in any order
StoreOrders(md) ==
  {[i \in 1..Len(md) |-> md[p[i]]] :
     p \in {q \in [1..Len(md) -> 1..Len(md)] :
              \A i, j \in 1..Len(md) : q[i] = q[j] => i = j}}

\* C20: the sorted list does not depend on the order of insertion: a store
\* holding the same entries in any other order gives the list that was
\* fetched, also for names the comparator takes as equal.
C20_InsertionOrderIrrelevant ==
  out.action = "fetchData"
    => \A other \in StoreOrders(monitorData) :
         getAllMonitorData(other) = out.data

\* C21: a message of an authenticated producer that the decode path rejects
\* (a binary frame that is not a gzip stream, a text that is neither JSON nor
\* a gzip stream, or a document without Host.Name) changes neither the store
\* nor the offline flags nor the memoized payload nor storage, sends no frame,
\* closes nothing, and leaves the connection open and authenticated.
C21_RejectedDropped ==
  [][\A c \in AgentIds : \A m \in MessagesFor(c, now) :
       (IsAuthedAgent(c) /\ ~IsValidSnapshot(m) /\ WebSocketMessage(c, m))
         => /\ monitorData' = monitorData
            /\ offlineMap' = offlineMap
            /\ cachedViewerPayload' = cachedViewerPayload
            /\ storage' = storage
            /\ out'.sent = NoFrames
            /\ out'.closes = {}
            /\ sockets' = sockets
            /\ IsAuthedAgent(c)']_vars

\* a document without Host.Name was dropped while a consumer was connected,
\* a payload memoized and the store not empty
C21_Witness ==
  /\ out.log = "missing Host.Name"
  /\ \E c \in AgentIds : IsAuthedAgent(c)
  /\ Viewers(sockets) # {}
  /\ cachedViewerPayload # <<>>
  /\ Len(monitorData) > 0

\* every code unit of the text is a byte value
IsByteText(units) == \A i \in 1..Len(units) : units[i] \in 0..255

\* C22: for a text whose code units are the bytes of a binary frame, the
\* bytes strategy 2 gives to the decompressor are those bytes, every byte
\* value from 0 to 255 included; and a gzip stream of a JSON text decodes to
\* that JSON text in either frame.
C22_TextFrameSameBytes ==
  (decode.done /\ IsByteText(decode.wire[1].units))
    => /\ (decode.wire[1].frame = "text" /\ 2 \in {decode.tried[i] : i \in 1..Len(decode.tried)})
            => decode.fed = decode.wire[1].units
       /\ \A b \in WireBodies :
            (IsJsonText(b) /\ decode.wire[1].units = GzipBytes(b))
              => decode.result = <<b>>

\* the gzip stream of {A1} was decoded from a text frame by strategy 2
C22_Witness ==
  /\ decode.done
  /\ decode.wire[1].frame = "text"
  /\ decode.wire[1].units = GzipBytes(<<123, 65, 49, 125>>)
  /\ decode.tried = <<1, 2>>
  /\ decode.result = <<<<123, 65, 49, 125>>>>

\* C25: for a text frame the decoder returns the result of the first of its
\* strategies that succeeds, in the order JSON text, low bytes decompressed,
\* UTF-8 bytes decompressed; it runs a strategy only when the ones before it
\* have failed; it returns null exactly when all three fail, and the handler
\* then logs, closes nothing and returns.
C25_FirstStrategyWins ==
  (decode.done /\ decode.wire[1].frame = "text")
    => LET u == decode.wire[1].units
           low == [i \in 1..Len(u) |-> u[i] % 256]
           s1 == IsJsonText(u)
           s2 == DecompressToJson(low) # <<>>
           s3 == DecompressToJson(Utf8Encode(u)) # <<>>
       IN  /\ s1 => decode.tried = <<1>> /\ decode.result = <<u>>
           /\ (~s1 /\ s2)
                => decode.tried = <<1, 2>>
                   /\ decode.result = DecompressToJson(low)
           /\ (~s1 /\ ~s2 /\ s3)
                => decode.tried = <<1, 2, 3>>
                   /\ decode.result = DecompressToJson(Utf8Encode(u))
           /\ (~s1 /\ ~s2 /\ ~s3)
                => decode.tried = <<1, 2, 3>> /\ decode.result = <<>>
           /\ decode.result = <<>> <=> (~s1 /\ ~s2 /\ ~s3)
           /\ decode.result = <<>>
                => out.log = "text decode failed" /\ out.closes = {}

\* a text that is a gzip stream with a wrong last byte went through all three
\* strategies and was discarded
C25_Witness ==
  /\ decode.done
  /\ decode.wire[1].frame = "text"
  /\ Len(decode.wire[1].units) > 3
  /\ decode.tried = <<1, 2, 3>>
  /\ decode.result = <<>>
  /\ out.log = "text decode failed"

\* C23: at most one alarm is pending; a successful authentication of a
\* producer sets the alarm 20 seconds out when none is pending and leaves a
\* pending alarm as it is, also beside other authentications and during a
\* sweep; no step but an authentication or a sweep changes the alarm.
C23_OneTimer ==
  [][/\ Len(alarm') <= 1
     /\ \A c \in ConnIds :
          acks'[c] # acks[c]
            => /\ alarm # <<>> => alarm' = alarm
               /\ alarm = <<>> => alarm' = <<now + ALARM_INTERVAL_MS \div 1000>>
     /\ alarm' # alarm
          => \/ \E c \in ConnIds : acks'[c] # acks[c]
             \/ AlarmStart
             \/ AlarmFinish]_vars

\* a second producer has authenticated, later than the first, while the
\* alarm the first one had set was still pending
C23_Witness ==
  /\ \E c \in ConnIds :
       /\ out.sent[c] = <<AckFrame>>
       /\ \E d \in ConnIds \ {c} : sockets[d].authed
  /\ alarm # <<>>
  /\ alarm[1] < now + ALARM_INTERVAL_MS \div 1000

\* C24: at the end of every sweep the alarm is set 20 seconds out if and only
\* if a connection is open or the store is not empty; otherwise no alarm is
\* pending after the sweep, and no sweep runs until a producer authenticates.
C24_IdleShutdown ==
  [][/\ (AlarmFinish \/ (AlarmStart /\ ~alarmRunning'))
          => IF OpenSockets(sockets) # {} \/ Len(monitorData) > 0
               THEN alarm' = <<now + ALARM_INTERVAL_MS \div 1000>>
               ELSE alarm' = <<>>
     /\ AlarmStart => alarm # <<>>
     /\ (alarm = <<>> /\ ~alarmRunning /\ alarm' # <<>>)
          => \E c \in ConnIds : acks'[c] # acks[c]]_vars

\* C24 as the program has it: a sweep that ends with no connection open and
\* an empty store sets no alarm, so the only alarm pending after it is one
\* that an authentication during the sweep has set.
C24_RescheduleIffBusy ==
  [][/\ AlarmFinish
          => IF OpenSockets(sockets) # {} \/ Len(monitorData) > 0
               THEN alarm' = <<now + ALARM_INTERVAL_MS \div 1000>>
               ELSE alarm' = alarm
     /\ (AlarmStart /\ ~alarmRunning')
          => IF OpenSockets(sockets) # {} \/ Len(monitorData) > 0
               THEN alarm' = <<now + ALARM_INTERVAL_MS \div 1000>>
               ELSE alarm' = <<>>
     /\ AlarmStart => alarm # <<>>
     /\ (alarm = <<>> /\ alarm' # <<>>)
          => \/ \E c \in ConnIds : acks'[c] # acks[c]
             \/ (AlarmFinish /\ (OpenSockets(sockets) # {} \/ Len(monitorData) > 0))]_vars

\* a sweep has ended with every connection closed and the store empty, and
\* no alarm is pending
C24_Witness ==
  /\ ~alarmRunning
  /\ alarm = <<>>
  /\ \E c \in ConnIds : acks[c] > 0
  /\ OpenSockets(sockets) = {}
  /\ Len(monitorData) = 0

\* C26: producer messages are applied to the store in the order of their
\* arrival: no handler ends before the handler of a message that arrived
\* earlier, and once every handler has ended the store holds, for an identity,
\* the snapshot of the last message that arrived for it.
C26_ArrivalOrder ==
  /\ \A i, j \in 1..Len(arrived) :
       (i < j /\ arrived[j].done) => arrived[i].done
  /\ (\A i \in 1..Len(arrived) : arrived[i].done)
       => \A i \in 1..Len(arrived) :
            (/\ IsValidSnapshot(arrived[i].msg)
             /\ \A j \in (i + 1)..Len(arrived) :
                  ~IsValidSnapshot(arrived[j].msg)
                    \/ arrived[j].msg.doc.Host.Name # arrived[i].msg.doc.Host.Name)
              => MapValue(monitorData, arrived[i].msg.doc.Host.Name)
                   = arrived[i].msg.doc

\* C27: when send throws on some consumer connections during the fan-out of
\* an accepted ingest (the step logs the failed sends), every other open
\* consumer connection is sent exactly one "data: " frame with the new
\* payload, the failing ones are sent nothing (no second attempt), no
\* connection is closed, and the put stays in the store.
C27_SendFailureIsolated ==
  [][out'.sendErrors # {} =>
       \A c \in {a \in AgentIds : IsAuthedAgent(a)} :
         \A m \in {x \in MessagesAt(now) : IsValidSnapshot(x)} :
           (FitsStore(m) /\ IngestWith(c, m, out'.sendErrors))
           => /\ \A v \in Viewers(sockets) \ out'.sendErrors :
                   GotPayloadOf(out'.sent[v], monitorData')
              /\ \A v \in ConnIds \ (Viewers(sockets) \ out'.sendErrors) :
                   out'.sent[v] = <<>>
              /\ MapValue(monitorData', m.doc.Host.Name) = m.doc
              /\ sockets' = sockets ]_vars

\* the send to the first of two open consumers threw, the second was sent
\* the payload with the snapshot that was put
C27_Witness ==
  \E v, w \in Viewers(sockets) :
    /\ v < w
    /\ out.sendErrors = {v}
    /\ out.sent[v] = <<>>
    /\ GotPayloadOf(out.sent[w], monitorData)
    /\ monitorData # <<>>

\* C28: when any subset of the notifications of a sweep fails, the sweep has
\* dispatched every notification of its pass and updated the offline flags
\* for all of them, and when the notifications have settled it keeps the
\* flags, persists the store and reschedules as a sweep without failures
\* does.
C28_NotifyFailureIsolated ==
  [][ /\ (~alarmRunning /\ alarmRunning' /\ notifyFailed' # {})
           => /\ out'.notify = Notifications(monitorData, offlineMap, now)
              /\ notifyFailed' \subseteq out'.notify
              /\ offlineMap' =
                   (offlineMap \cup NewlyOffline(monitorData, offlineMap, now))
                     \ BackOnline(monitorData, offlineMap, now)
      /\ (alarmRunning /\ ~alarmRunning' /\ notifyFailed # {})
           => /\ offlineMap' = offlineMap
              /\ storage' = Persist(monitorData, storage)
              /\ alarm' = Reschedule(alarm, sockets, monitorData, now)
              /\ monitorData' = monitorData ]_vars

\* a sweep whose offline notification failed has ended: the host is flagged,
\* its snapshot persisted and the next sweep scheduled
C28_Witness ==
  /\ out.log = "notification failed"
  /\ ~alarmRunning
  /\ offlineMap # {}
  /\ \E h \in offlineMap :
       [name |-> h, json |-> MapValue(monitorData, h)] \in storage
  /\ alarm = <<now + ALARM_INTERVAL_MS \div 1000>>

\* C29: a sweep whose durable write fails still leaves a timer pending
\* whenever a connection is open or the store is not empty.
C29_PersistFailureIsolated ==
  [][(out'.log = "alarm rejected"
        /\ (OpenSockets(sockets') # {} \/ Len(monitorData') > 0))
      => alarm' # <<>>]_vars

\* C30: in an instance whose restore has not finished, the only step of the
\* object is the restore itself: no upgrade, message, RPC call or sweep
\* changes or reads out the store, the sockets, the storage, the alarm or the
\* flags before it; the restore runs only in such an instance, ends it, and
\* leaves the store as the restored one.
C30_RestoreFirst ==
  [][ /\ ~initialized
           => \/ /\ initialized'
                 /\ Construct
                 /\ monitorData' = RestoreInto(<<>>, ListByKey(storage), now)
              \/ /\ ~initialized'
                 /\ UNCHANGED <<monitorData, offlineMap, cachedViewerPayload,
                                sockets, storage, alarm, alarmRunning, acks,
                                hostInfo>>
                 /\ out' = EmptyOut
      /\ Construct => ~initialized
      /\ (initialized /\ initialized') => ~Construct ]_vars

\* a later instance has restored a host from the storage, with an
\* authenticated producer connection that survived the eviction
C30_Witness ==
  /\ initialized
  /\ survivors # {}
  /\ monitorData # <<>>
  /\ MapKeys(monitorData) \subseteq StorageKeys
  /\ out = EmptyOut
  /\ \E c \in survivors : IsAuthedAgent(c)

\* C31: in one instance the handlers have serialized the payload at most once
\* more often than they have set the cache to null, and at most once since
\* the cache was last set to null, however many consumers the fan-outs wrote
\* to and however many consumer requests were answered.
C31_SerializedOncePerChange ==
  cacheOps # <<>>
    => /\ cacheOps.rebuilds <= cacheOps.invalidations + 1
       /\ cacheOps.sinceChange <= 1

\* two consumers are open, the last step answered a consumer request from
\* the memoized payload, and the instance has serialized as often as it has
\* invalidated
C31_Witness ==
  /\ cacheOps # <<>>
  /\ Cardinality(Viewers(sockets)) = 2
  /\ cacheOps.invalidations = 2
  /\ cacheOps.rebuilds = 2
  /\ cacheOps.sinceChange = 1
  /\ \E v \in Viewers(sockets) :
       /\ GotPayloadOf(out.sent[v], monitorData)
       /\ \A w \in ConnIds \ {v} : out.sent[w] = <<>>

\* C32: in every state the names that have an offline flag are names of the
\* store, also while a sweep waits for its notifications and a delete or an
\* ingest is handled in between.
C32_FlagsWithinStore ==
  offlineMap \subseteq MapKeys(monitorData)

\* a sweep that flagged two hosts waits for its notifications, and a delete
\* handled during the wait has removed one host and its flag
C32_Witness ==
  /\ alarmRunning
  /\ out.action = "deleteHost"
  /\ out.rpc = 200
  /\ Cardinality(offlineMap) = 1
  /\ offlineMap = MapKeys(monitorData)

\* C33: the handler of a close and the handler of an error send nothing and
\* close nothing on the socket, leave the store, the offline flags, the
\* memoized payload and the storage as they are, and afterwards the
\* connection is not among the consumers of a fan-out.
C33_EndOfConnectionIsQuiet ==
  [][\A c \in ConnIds :
       (WebSocketClose(c) \/ WebSocketError(c))
         => /\ out'.sent = NoFrames
            /\ out'.closes = {}
            /\ UNCHANGED <<monitorData, offlineMap, cachedViewerPayload, storage>>
            /\ c \notin Viewers(sockets') ]_vars

\* C34: with the handlers of part_001, a gzip snapshot sent as a binary
\* message on a producer connection that has authenticated is stored and
\* sent to every open consumer, and the connection stays open.
C34_TaggedDataIsRouted ==
  [][\A c \in {a \in AgentIds : IsAuthedAgent(a)} :
       \A m \in {x \in MessagesAt(now) :
                   IsValidSnapshot(x) /\ x.frame = "binary"} :
         WebSocketMessageTagged(c, m)
         => /\ MapHas(monitorData', m.doc.Host.Name)
            /\ MapValue(monitorData', m.doc.Host.Name) = m.doc
            /\ \A v \in Viewers(sockets) :
                 GotPayloadOf(out'.sent[v], monitorData')
            /\ sockets'[c].status = "open"
            /\ out'.closes = {} ]_vars

\* C35: the worker calls the object for a metadata update or a deletion only
\* when the body is an object whose auth_secret is the configured secret, and
\* for the export only when the token is the hook token. A request whose
\* credential is wrong or missing is answered 401, and a request that is not
\* forwarded changes nothing in the store, the offline flags, the memoized
\* payload, the persisted snapshots and the metadata records and returns no
\* snapshot data.
C35_WorkerChecksCredential ==
  [][ /\ out'.action \in {"updateInfo", "deleteHost"}
           => \E k \in BodyKinds : \E s \in SecretValues :
                /\ k = "object"
                /\ s = AUTH_SECRET
                /\ \/ \E n \in InfoNames : \E i \in Sellers :
                        WorkerUpdateInfo(k, s, n, i)
                   \/ \E n \in Names : WorkerDeleteHost(k, s, n)
      /\ out'.action = "fetchData" => WorkerHook(HOOK_TOKEN)
      /\ \A s \in SecretValues \ {AUTH_SECRET} :
           (\/ \E n \in InfoNames : \E i \in Sellers :
                 WorkerUpdateInfo("object", s, n, i)
            \/ \E n \in Names : WorkerDeleteHost("object", s, n))
           => /\ out'.rpc = 401
              /\ out'.data = <<>>
              /\ UNCHANGED <<monitorData, offlineMap, cachedViewerPayload,
                             storage, hostInfo>>
      /\ \A t \in TokenValues \ {HOOK_TOKEN} :
           WorkerHook(t)
           => /\ out'.rpc = 401
              /\ out'.data = <<>>
              /\ UNCHANGED <<monitorData, offlineMap, cachedViewerPayload,
                             storage, hostInfo>>
      /\ out'.action = "worker"
           => /\ out'.data = <<>>
              /\ UNCHANGED <<monitorData, offlineMap, cachedViewerPayload,
                             storage, hostInfo>> ]_vars

\* a request was answered 401 while the object held a host with a flag, a
\* persisted snapshot, a memoized payload and a metadata record
C35_Witness ==
  /\ out.action = "worker"
  /\ out.rpc = 401
  /\ monitorData # <<>>
  /\ offlineMap # {}
  /\ storage # {}
  /\ cachedViewerPayload # <<>>
  /\ hostInfo # {}

\* the sign of a result of the comparator
Sign(n) == IF n < 0 THEN -1 ELSE IF n > 0 THEN 1 ELSE 0

\* C36: over names that take either branch of compareStrings, the sign of
\* compare(a, b) is the opposite of the sign of compare(b, a), compare(a, a)
\* is 0, and compare(a, b) <= 0 with compare(b, c) <= 0 gives
\* compare(a, c) <= 0.
C36_ComparatorIsPreorder ==
  \A a, b \in MapKeys(monitorData) :
    /\ Sign(compareStrings(a, b)) = 0 - Sign(compareStrings(b, a))
    /\ compareStrings(a, a) = 0
    /\ compareStrings(a, b) <= 0
         => \A c \in CompareNames :
              compareStrings(b, c) <= 0 => compareStrings(a, c) <= 0

\* the list was fetched from a store of two names, one of letters and digits
\* and one that takes the fallback, and came back in the other order
C36_Witness ==
  /\ out.action = "fetchData"
  /\ Len(monitorData) = 2
  /\ MatchesNameRe(StripWhitespace(monitorData[1].name))
  /\ ~MatchesNameRe(StripWhitespace(monitorData[2].name))
  /\ out.data = <<monitorData[2].json, monitorData[1].json>>

NotificationsOffAsStated ==
  \/ env.ENABLE_TG # "true"
  \/ env.TG_CHAT_ID \in {"", "0"}
  \/ env.TG_TOKEN \in {"", "0"}

\* the notifications are off: ENABLE_TG is not "true", or the chat id is
\* empty or "0", or the token is empty
NotificationsOff ==
  \/ env.ENABLE_TG # "true"
  \/ env.TG_CHAT_ID \in {"", "0"}
  \/ env.TG_TOKEN = ""

\* the sweep changed no flag and sent nothing, and did persist the store and
\* apply the rescheduling rule
QuietSweepEffect ==
  /\ offlineMap' = offlineMap
  /\ out'.notify = {}
  /\ ~alarmRunning'
  /\ \A i \in 1..Len(monitorData) :
       [name |-> monitorData[i].name, json |-> monitorData[i].json] \in storage'
  /\ alarm' = IF OpenSockets(sockets) # {} \/ Len(monitorData) > 0
                 THEN <<now + ALARM_INTERVAL_MS \div 1000>>
                 ELSE <<>>

\* C38 as stated: when ENABLE_TG is not "true", or the chat id or the token is
\* empty or "0", a sweep leaves the offline flags unchanged and emits no
\* notification whatever the age of the snapshots, and still persists the
\* store and applies the rescheduling rule.
C38_QuietSweepAsStated ==
  [][(AlarmStart /\ NotificationsOffAsStated) => QuietSweepEffect]_vars

\* C38: when ENABLE_TG is not "true", or the chat id is empty or "0", or the
\* token is empty, a sweep leaves the offline flags unchanged and emits no
\* notification whatever the age of the snapshots, and still persists the
\* store and applies the rescheduling rule.
C38_QuietSweep ==
  [][(AlarmStart /\ NotificationsOff) => QuietSweepEffect]_vars

\* notifications off, a sweep at 61 over a host last seen at 0: no flag,
\* nothing sent, the snapshot persisted and the timer set again
C38_Witness ==
  /\ NotificationsOff
  /\ ~alarmRunning
  /\ now = 61
  /\ alarm = <<61 + ALARM_INTERVAL_MS \div 1000>>
  /\ offlineMap = {}
  /\ out = EmptyOut
  /\ \E i \in 1..Len(monitorData) :
       /\ monitorData[i].json.TimeStamp = 0
       /\ [name |-> monitorData[i].name, json |-> monitorData[i].json] \in storage

====
